---------------------------- MODULE Spec2Model ----------------------------
(***************************************************************************)
(* Verification model of the in-memory directory-structure emulator:       *)
(* src/src/models.py (BaseNode / FileNode / DirectoryNode) and             *)
(* src/src/filesystem.py (FileSystemManager).                              *)
(*                                                                         *)
(* Python strings are modelled as sequences of one-character strings, so   *)
(* that split, startswith, "char in name" and path concatenation are       *)
(* computed the way the code computes them.  Python objects live in the    *)
(* heap `nodes` (object id -> object); an object that is referenced        *)
(* neither from the manager nor from a live object is reclaimed.           *)
(***************************************************************************)
EXTENDS Integers, Sequences, FiniteSets, TLC

VARIABLES
    nodes,              \* the heap: node id -> node object
    root,               \* FileSystemManager.root (a node id)
    current_directory,  \* FileSystemManager.current_directory (a node id)
    mode,               \* FileSystemManager.mode
    operation_log,      \* FileSystemManager.operation_log
    clock,              \* what datetime.now() returns
    ret                 \* the last call: operation, arguments and what it returned

vars == <<nodes, root, current_directory, mode, operation_log, clock, ret>>

\* the manager's own state (everything but the record of the last call)
manager == <<nodes, root, current_directory, mode, operation_log>>

-----------------------------------------------------------------------------
(* Bounds of the model *)

\* entries of operation_log (a bound on the successful mutations and searches
\* since the last reset, hence on the nodes of the tree)
MaxLog == 3
\* entries of operation_log in the deep-nesting specification
MaxDeepLog == 11
\* entries of operation_log, and the last reading of the clock, in the
\* specification where time passes
MaxClockLog == 3
MaxClock == 1
\* entries of operation_log in the search specification
MaxSearchLog == 4
\* entries of operation_log in the match-test specification
MaxMatchLog == 2
\* entries of operation_log in the listing specification
MaxListLog == 4
\* entries of operation_log in the size specification
MaxSizeLog == 2
\* entries of operation_log in the check-order specification
MaxOrderLog == 11
\* the path round-trip specification
MaxPathLog == 3
\* entries of operation_log in the rename-order specification
MaxRenameLog == 4

-----------------------------------------------------------------------------
(* Python values *)

\* Python's None where a node reference is expected
None == -1

\* an omitted (None) size argument; a given size v is <<v>>
NoSize == <<>>

-----------------------------------------------------------------------------
(* str helpers *)

\* `c in s` for a one-character c
Contains(s, c) == \E i \in 1..Len(s) : s[i] = c

\* index of the first occurrence of c in s (0 when absent)
IndexOf(s, c) ==
    IF Contains(s, c) THEN CHOOSE i \in 1..Len(s) : s[i] = c /\ \A j \in 1..(i-1) : s[j] # c
    ELSE 0

\* s.split(sep) for a one-character sep: always at least one piece
RECURSIVE split(_, _)
split(s, sep) ==
    LET i == IndexOf(s, sep) IN
    IF i = 0 THEN <<s>>
    ELSE <<SubSeq(s, 1, i - 1)>> \o split(SubSeq(s, i + 1, Len(s)), sep)

\* s.startswith(c)
startswith(s, c) == Len(s) > 0 /\ s[1] = c


-----------------------------------------------------------------------------
(* models.py: node objects *)

\* BaseNode.__init__ / DirectoryNode.__init__ at time t
DirectoryNode(name, parent, t) ==
    [type |-> "DIRECTORY", name |-> name, parent |-> parent,
     created_at |-> t, modified_at |-> t, size |-> 0,
     access_mode |-> "Read / Write", children |-> <<>>]

\* name.split('.')[-1] if '.' in name else ""
extension_of(name) ==
    IF Contains(name, ".")
    THEN LET parts == split(name, ".") IN parts[Len(parts)]
    ELSE <<>>

\* BaseNode.__init__ / FileNode.__init__ at time t
FileNode(name, parent, size, t) ==
    [type |-> "FILE", name |-> name, parent |-> parent,
     created_at |-> t, modified_at |-> t, size |-> size,
     access_mode |-> "Read / Write", extension |-> extension_of(name)]

\* isinstance(node, DirectoryNode)
IsDirectory(ns, n) == ns[n].type = "DIRECTORY"

\* the children dict of a directory is a sequence of [key, node] entries in
\* insertion order; the keys of the dict
child_keys(ns, d) == {ns[d].children[i].key : i \in 1..Len(ns[d].children)}

\* the values of the dict
child_nodes(ns, d) == {ns[d].children[i].node : i \in 1..Len(ns[d].children)}

\* DirectoryNode.has_child
has_child(ns, d, name) == name \in child_keys(ns, d)

\* DirectoryNode.get_child: the node under that key, or None
get_child(ns, d, name) ==
    IF name \in child_keys(ns, d)
    THEN LET i == CHOOSE i \in 1..Len(ns[d].children) : ns[d].children[i].key = name
         IN ns[d].children[i].node
    ELSE None

\* DirectoryNode.is_empty
is_empty(ns, d) == Len(ns[d].children) = 0

\* DirectoryNode.add_child at time t: [ok, nodes]
add_child(ns, d, n, t) ==
    IF ns[n].name \in child_keys(ns, d)
    THEN [ok |-> FALSE, nodes |-> ns]
    ELSE [ok |-> TRUE,
          nodes |-> [ns EXCEPT ![d].children = Append(@, [key |-> ns[n].name, node |-> n]),
                               ![n].parent = d,
                               ![d].modified_at = t]]

\* (mutant) removing an entry does not touch the directory's modified_at
remove_child_keeps_modified_at(ns, d, name, t) ==
    IF name \notin child_keys(ns, d)
    THEN [ok |-> FALSE, nodes |-> ns]
    ELSE [ok |-> TRUE,
          nodes |-> [ns EXCEPT ![d].children = SelectSeq(@, LAMBDA e : e.key # name)]]

\* DirectoryNode.remove_child at time t: [ok, nodes]
remove_child(ns, d, name, t) ==
    IF name \notin child_keys(ns, d)
    THEN [ok |-> FALSE, nodes |-> ns]
    ELSE [ok |-> TRUE,
          nodes |-> [ns EXCEPT ![d].children = SelectSeq(@, LAMBDA e : e.key # name),
                               ![d].modified_at = t]]

\* DirectoryNode.get_depth: parent hops to the root
RECURSIVE hops(_, _)
hops(ns, current) == IF current = None THEN 0 ELSE 1 + hops(ns, ns[current].parent)

get_depth(ns, d) == hops(ns, ns[d].parent)

\* (mutant) the path of the parent and the name are always joined with "/"
RECURSIVE get_path_plain_join(_, _)
get_path_plain_join(ns, n) ==
    IF ns[n].parent = None
    THEN IF ns[n].name # <<>> THEN <<"/">> \o ns[n].name ELSE <<"/">>
    ELSE get_path_plain_join(ns, ns[n].parent) \o <<"/">> \o ns[n].name

\* BaseNode.get_path
RECURSIVE get_path(_, _)
get_path(ns, n) ==
    IF ns[n].parent = None
    THEN IF ns[n].name # <<>> THEN <<"/">> \o ns[n].name ELSE <<"/">>
    ELSE LET parent_path == get_path(ns, ns[n].parent) IN
         IF parent_path = <<"/">> THEN <<"/">> \o ns[n].name
         ELSE parent_path \o <<"/">> \o ns[n].name

\* the decimal digits, digit d at position d + 1
digits == <<"0", "1", "2", "3", "4", "5", "6", "7", "8", "9">>

\* str(n) for an int n
RECURSIVE str_of_nat(_)
str_of_nat(n) ==
    IF n < 10 THEN <<digits[n + 1]>> ELSE str_of_nat(n \div 10) \o <<digits[(n % 10) + 1]>>

str_of_int(n) == IF n < 0 THEN <<"-">> \o str_of_nat(0 - n) ELSE str_of_nat(n)

\* f"{n / d:.1f}" for n >= 0 and d a power of two: the quotient is exact as
\* a float, and is written with one decimal, rounded to the nearest tenth,
\* a tie to the even tenth
one_decimal(n, d) ==
    LET tenths == (n * 10) \div d
        rest == (n * 10) % d
        rounded == IF 2 * rest > d \/ (2 * rest = d /\ tenths % 2 = 1)
                   THEN tenths + 1 ELSE tenths
    IN str_of_nat(rounded \div 10) \o <<".">> \o <<digits[(rounded % 10) + 1]>>

\* (mutant) the thresholds are compared with <=
format_size_inclusive(size) ==
    IF size <= 1024 THEN str_of_int(size) \o <<" ", "B">>
    ELSE IF size <= 1024 * 1024 THEN one_decimal(size, 1024) \o <<" ", "K", "B">>
    ELSE one_decimal(size, 1024 * 1024) \o <<" ", "M", "B">>

\* BaseNode.format_size, of a node whose size is size
format_size(size) ==
    IF size < 1024 THEN str_of_int(size) \o <<" ", "B">>
    ELSE IF size < 1024 * 1024 THEN one_decimal(size, 1024) \o <<" ", "K", "B">>
    ELSE one_decimal(size, 1024 * 1024) \o <<" ", "M", "B">>

-----------------------------------------------------------------------------
(* the heap *)

\* the objects referenced from the objects of S: children and parents
Referenced(ns, S) ==
    UNION {IF IsDirectory(ns, n) THEN child_nodes(ns, n) ELSE {} : n \in S}
    \cup {ns[n].parent : n \in {m \in S : ns[m].parent # None}}

RECURSIVE Closure(_, _)
Closure(ns, S) ==
    LET T == S \cup (Referenced(ns, S) \cap DOMAIN ns) IN
    IF T = S THEN S ELSE Closure(ns, T)

\* garbage collection: keep what the manager's references r and c reach
Collect(ns, r, c) == LET live == Closure(ns, {r, c}) IN [n \in live |-> ns[n]]

\* the id of a newly allocated object
NewId(ns) ==
    CHOOSE n \in 0..Cardinality(DOMAIN ns) : n \notin DOMAIN ns /\ \A m \in 0..(n - 1) : m \in DOMAIN ns

\* the heap with a new object
Alloc(ns, obj) == [n \in DOMAIN ns \cup {NewId(ns)} |-> IF n \in DOMAIN ns THEN ns[n] ELSE obj]

-----------------------------------------------------------------------------
(* filesystem.py: FSMode and the manager's helpers *)

SINGLE_LEVEL == "single"
TWO_LEVEL == "two-level"
HIERARCHICAL == "hierarchical"

\* FileSystemManager.max_depth (set once in __init__)
max_depth == 10

EmptyHeap == [n \in {} |-> None]

\* the word "Root" of the log messages
RootWord == <<"R", "o", "o", "t">>

\* the call just made and what it returned: ok is the success flag, err the
\* kind of the failure message ("" on success)
Return(op, args, ok, err) == [op |-> op, args |-> args, ok |-> ok, err |-> err]

\* no call is pending: the command loop is at its prompt
Idle == Return("", <<>>, TRUE, "")

\* a call that returns (False, message) without having touched the manager
Fail(op, args, err) ==
    /\ ret' = Return(op, args, FALSE, err)
    /\ UNCHANGED <<nodes, root, current_directory, mode, operation_log, clock>>

\* FileSystemManager._log_operation: the log with "[timestamp] message" appended
_log_operation(log, message, t) == Append(log, [timestamp |-> t, message |-> message])

\* the characters _validate_name refuses, in the order it tests them
invalid_chars == <<"/", "\\", ":", "*", "?", "\"", "<", ">", "|">>

\* FileSystemManager._validate_name: [ok, err]
_validate_name(name) ==
    IF name = <<>> THEN [ok |-> FALSE, err |-> "EmptyName"]
    ELSE IF \E i \in 1..Len(invalid_chars) : Contains(name, invalid_chars[i])
    THEN [ok |-> FALSE, err |-> "InvalidCharacter"]
    ELSE IF Len(name) > 255 THEN [ok |-> FALSE, err |-> "NameTooLong"]
    ELSE [ok |-> TRUE, err |-> ""]

\* (mutant) the reset leaves the cursor where it was, on the old tree
reset_keeps_cursor ==
    /\ nodes' = Collect(Alloc(nodes, DirectoryNode(<<>>, None, clock)), NewId(nodes),
                        current_directory)
    /\ root' = NewId(nodes)
    /\ current_directory' = current_directory
    /\ operation_log' = <<>>

\* FileSystemManager._reset_filesystem: a new empty root, the cursor on it,
\* an empty log; the old tree is no longer referenced
_reset_filesystem ==
    /\ nodes' = Alloc(EmptyHeap, DirectoryNode(<<>>, None, clock))
    /\ root' = NewId(EmptyHeap)
    /\ current_directory' = NewId(EmptyHeap)
    /\ operation_log' = <<>>

-----------------------------------------------------------------------------
(* filesystem.py: the operations *)

\* (mutant) the tree is reset before the mode is validated
set_mode_resets_first(m) ==
    IF m \notin {SINGLE_LEVEL, TWO_LEVEL, HIERARCHICAL}
    THEN /\ _reset_filesystem
         /\ ret' = Return("set_mode", <<m>>, FALSE, "InvalidMode")
         /\ UNCHANGED <<mode, clock>>
    ELSE /\ mode' = m
         /\ _reset_filesystem
         /\ ret' = Return("set_mode", <<m>>, TRUE, "")
         /\ UNCHANGED clock

\* (mutant) switching to the mode already active is a no-op
set_mode_skips_same(m) ==
    IF m \notin {SINGLE_LEVEL, TWO_LEVEL, HIERARCHICAL}
    THEN Fail("set_mode", <<m>>, "InvalidMode")
    ELSE IF m = mode
    THEN /\ ret' = Return("set_mode", <<m>>, TRUE, "")
         /\ UNCHANGED <<nodes, root, current_directory, mode, operation_log, clock>>
    ELSE /\ mode' = m
         /\ _reset_filesystem
         /\ ret' = Return("set_mode", <<m>>, TRUE, "")
         /\ UNCHANGED clock

\* (mutant) the mode is switched over the tree as it is
set_mode_keeps_tree(m) ==
    IF m \notin {SINGLE_LEVEL, TWO_LEVEL, HIERARCHICAL}
    THEN Fail("set_mode", <<m>>, "InvalidMode")
    ELSE /\ mode' = m
         /\ ret' = Return("set_mode", <<m>>, TRUE, "")
         /\ UNCHANGED <<nodes, root, current_directory, operation_log, clock>>

\* FileSystemManager.set_mode
set_mode(m) ==
    IF m \notin {SINGLE_LEVEL, TWO_LEVEL, HIERARCHICAL}
    THEN Fail("set_mode", <<m>>, "InvalidMode")
    ELSE /\ mode' = m
         /\ _reset_filesystem
         /\ ret' = Return("set_mode", <<m>>, TRUE, "")
         /\ UNCHANGED clock

\* (mutant) the test for a child of that name is missing
create_file_no_exists_check(name, size, rnd) ==
    LET v == _validate_name(name) IN
    IF ~v.ok THEN Fail("create_file", <<name, size>>, v.err)
    ELSE
      LET sz == IF size = NoSize THEN rnd * 1024 ELSE size[1]
          file_node == NewId(nodes)
          heap == Alloc(nodes, FileNode(name, current_directory, sz, clock))
          added == add_child(heap, current_directory, file_node, clock)
          dir_name == IF nodes[current_directory].name # <<>>
                      THEN nodes[current_directory].name ELSE RootWord
      IN
      /\ rnd \in 1..100
      /\ IF added.ok
         THEN /\ nodes' = added.nodes
              /\ operation_log' = _log_operation(operation_log,
                     [text |-> "File created in", a |-> name, b |-> dir_name], clock)
              /\ ret' = Return("create_file", <<name, size>>, TRUE, "")
         ELSE /\ nodes' = Collect(added.nodes, root, current_directory)
              /\ operation_log' = operation_log
              /\ ret' = Return("create_file", <<name, size>>, FALSE, "Failed")
      /\ UNCHANGED <<root, current_directory, mode, clock>>

\* FileSystemManager.create_file; rnd is what random.randint(1, 100) returns
create_file(name, size, rnd) ==
    LET v == _validate_name(name) IN
    IF ~v.ok THEN Fail("create_file", <<name, size>>, v.err)
    ELSE IF has_child(nodes, current_directory, name)
    THEN Fail("create_file", <<name, size>>, "AlreadyExists")
    ELSE
      LET sz == IF size = NoSize THEN rnd * 1024 ELSE size[1]
          file_node == NewId(nodes)
          heap == Alloc(nodes, FileNode(name, current_directory, sz, clock))
          added == add_child(heap, current_directory, file_node, clock)
          dir_name == IF nodes[current_directory].name # <<>>
                      THEN nodes[current_directory].name ELSE RootWord
      IN
      /\ rnd \in 1..100
      /\ IF added.ok
         THEN /\ nodes' = added.nodes
              /\ operation_log' = _log_operation(operation_log,
                     [text |-> "File created in", a |-> name, b |-> dir_name], clock)
              /\ ret' = Return("create_file", <<name, size>>, TRUE, "")
         ELSE /\ nodes' = Collect(added.nodes, root, current_directory)
              /\ operation_log' = operation_log
              /\ ret' = Return("create_file", <<name, size>>, FALSE, "Failed")
      /\ UNCHANGED <<root, current_directory, mode, clock>>

\* (mutant) the single-level check is missing
create_directory_check_no_single(name) ==
    LET v == _validate_name(name) IN
    IF ~v.ok THEN v.err
    ELSE IF mode = TWO_LEVEL /\ get_depth(nodes, current_directory) >= 1
    THEN "DepthExceeded"
    ELSE IF mode = HIERARCHICAL /\ get_depth(nodes, current_directory) >= max_depth
    THEN "DepthExceeded"
    ELSE IF has_child(nodes, current_directory, name) THEN "AlreadyExists"
    ELSE ""

\* (mutant) the depth checks compare with > where the code has >=
create_directory_check_off_by_one(name) ==
    LET v == _validate_name(name) IN
    IF ~v.ok THEN v.err
    ELSE IF mode = SINGLE_LEVEL THEN "UnsupportedOperation"
    ELSE IF mode = TWO_LEVEL /\ get_depth(nodes, current_directory) > 1
    THEN "DepthExceeded"
    ELSE IF mode = HIERARCHICAL /\ get_depth(nodes, current_directory) > max_depth
    THEN "DepthExceeded"
    ELSE IF has_child(nodes, current_directory, name) THEN "AlreadyExists"
    ELSE ""

\* (mutant) the name collision is tested before the mode and the depth
create_directory_check_exists_first(name) ==
    LET v == _validate_name(name) IN
    IF ~v.ok THEN v.err
    ELSE IF has_child(nodes, current_directory, name) THEN "AlreadyExists"
    ELSE IF mode = SINGLE_LEVEL THEN "UnsupportedOperation"
    ELSE IF mode = TWO_LEVEL /\ get_depth(nodes, current_directory) >= 1
    THEN "DepthExceeded"
    ELSE IF mode = HIERARCHICAL /\ get_depth(nodes, current_directory) >= max_depth
    THEN "DepthExceeded"
    ELSE ""

\* FileSystemManager.create_directory, the checks before the directory is
\* made: the kind of the first one that fails, "" when none does
create_directory_check(name) ==
    LET v == _validate_name(name) IN
    IF ~v.ok THEN v.err
    ELSE IF mode = SINGLE_LEVEL THEN "UnsupportedOperation"
    ELSE IF mode = TWO_LEVEL /\ get_depth(nodes, current_directory) >= 1
    THEN "DepthExceeded"
    ELSE IF mode = HIERARCHICAL /\ get_depth(nodes, current_directory) >= max_depth
    THEN "DepthExceeded"
    ELSE IF has_child(nodes, current_directory, name) THEN "AlreadyExists"
    ELSE ""

\* FileSystemManager.create_directory
create_directory(name) ==
    IF create_directory_check(name) # ""
    THEN Fail("create_directory", <<name>>, create_directory_check(name))
    ELSE
      LET dir_node == NewId(nodes)
          heap == Alloc(nodes, DirectoryNode(name, current_directory, clock))
          added == add_child(heap, current_directory, dir_node, clock)
      IN
      /\ IF added.ok
         THEN /\ nodes' = added.nodes
              /\ operation_log' = _log_operation(operation_log,
                     [text |-> "Folder created", a |-> name, b |-> <<>>], clock)
              /\ ret' = Return("create_directory", <<name>>, TRUE, "")
         ELSE /\ nodes' = Collect(added.nodes, root, current_directory)
              /\ operation_log' = operation_log
              /\ ret' = Return("create_directory", <<name>>, FALSE, "Failed")
      /\ UNCHANGED <<root, current_directory, mode, clock>>

\* (mutant) a directory is removed whether or not it is empty
delete_ignores_recursive(name, recursive) ==
    LET node == get_child(nodes, current_directory, name) IN
    IF node = None THEN Fail("delete", <<name, recursive>>, "NotFound")
    ELSE
      LET removed == remove_child(nodes, current_directory, name, clock)
          node_type == IF IsDirectory(nodes, node) THEN "Folder" ELSE "File"
      IN
      /\ IF removed.ok
         THEN /\ nodes' = Collect(removed.nodes, root, current_directory)
              /\ operation_log' = _log_operation(operation_log,
                     [text |-> node_type \o " deleted", a |-> name, b |-> <<>>], clock)
              /\ ret' = Return("delete", <<name, recursive>>, TRUE, "")
         ELSE /\ nodes' = nodes
              /\ operation_log' = operation_log
              /\ ret' = Return("delete", <<name, recursive>>, FALSE, "Failed")
      /\ UNCHANGED <<root, current_directory, mode, clock>>

\* FileSystemManager.delete
delete(name, recursive) ==
    LET node == get_child(nodes, current_directory, name) IN
    IF node = None THEN Fail("delete", <<name, recursive>>, "NotFound")
    ELSE IF IsDirectory(nodes, node) /\ ~is_empty(nodes, node) /\ ~recursive
    THEN Fail("delete", <<name, recursive>>, "NotEmpty")
    ELSE
      LET removed == remove_child(nodes, current_directory, name, clock)
          node_type == IF IsDirectory(nodes, node) THEN "Folder" ELSE "File"
      IN
      /\ IF removed.ok
         THEN /\ nodes' = Collect(removed.nodes, root, current_directory)
              /\ operation_log' = _log_operation(operation_log,
                     [text |-> node_type \o " deleted", a |-> name, b |-> <<>>], clock)
              /\ ret' = Return("delete", <<name, recursive>>, TRUE, "")
         ELSE /\ nodes' = nodes
              /\ operation_log' = operation_log
              /\ ret' = Return("delete", <<name, recursive>>, FALSE, "Failed")
      /\ UNCHANGED <<root, current_directory, mode, clock>>

\* (mutant) the old entry is not removed before the node is added back
rename_entry_keeps_old(ns, d, node, old_name, new_name, t) ==
    LET named == [ns EXCEPT ![node].name = new_name]
        derived == IF ~IsDirectory(named, node)
                   THEN [named EXCEPT ![node].extension = extension_of(new_name)]
                   ELSE named
    IN add_child(derived, d, node, t).nodes

\* (mutant) a renamed file keeps the extension it was created with
rename_entry_stale_extension(ns, d, node, old_name, new_name, t) ==
    LET removed == remove_child(ns, d, old_name, t).nodes
        named == [removed EXCEPT ![node].name = new_name]
    IN add_child(named, d, node, t).nodes

\* (mutant) the entry is re-keyed where it stands in the children of d
rename_entry_in_place(ns, d, node, old_name, new_name, t) ==
    LET named == [ns EXCEPT ![node].name = new_name,
                            ![d].children = [i \in 1..Len(@) |->
                                IF @[i].key = old_name
                                THEN [key |-> new_name, node |-> node] ELSE @[i]],
                            ![d].modified_at = t]
    IN IF ~IsDirectory(named, node)
       THEN [named EXCEPT ![node].extension = extension_of(new_name)]
       ELSE named

\* FileSystemManager.rename, the re-keying: the heap after the entry of node
\* is removed from directory d, the node renamed (a file's extension derived
\* again) and added back
rename_entry(ns, d, node, old_name, new_name, t) ==
    LET removed == remove_child(ns, d, old_name, t).nodes
        named == [removed EXCEPT ![node].name = new_name]
        derived == IF ~IsDirectory(named, node)
                   THEN [named EXCEPT ![node].extension = extension_of(new_name)]
                   ELSE named
    IN add_child(derived, d, node, t).nodes

\* FileSystemManager.rename
rename(old_name, new_name) ==
    LET v == _validate_name(new_name)
        node == get_child(nodes, current_directory, old_name)
    IN
    IF ~v.ok THEN Fail("rename", <<old_name, new_name>>, v.err)
    ELSE IF node = None THEN Fail("rename", <<old_name, new_name>>, "NotFound")
    ELSE IF has_child(nodes, current_directory, new_name)
    THEN Fail("rename", <<old_name, new_name>>, "AlreadyExists")
    ELSE
      LET node_type == IF IsDirectory(nodes, node) THEN "Folder" ELSE "File" IN
      /\ nodes' = Collect(rename_entry(nodes, current_directory, node, old_name, new_name, clock),
                          root, current_directory)
      /\ operation_log' = _log_operation(operation_log,
             [text |-> node_type \o " renamed to", a |-> old_name, b |-> new_name], clock)
      /\ ret' = Return("rename", <<old_name, new_name>>, TRUE, "")
      /\ UNCHANGED <<root, current_directory, mode, clock>>

\* FileSystemManager.get_info
get_info(name) ==
    IF get_child(nodes, current_directory, name) = None
    THEN Fail("get_info", <<name>>, "NotFound")
    ELSE /\ ret' = Return("get_info", <<name>>, TRUE, "")
         /\ UNCHANGED <<nodes, root, current_directory, mode, operation_log, clock>>

\* [p for p in path.split("/") if p]
path_parts(path) == SelectSeq(split(path, "/"), LAMBDA p : p # <<>>)

\* (mutant) a ".." part at the root is an error, as the path ".." is
RECURSIVE resolve_parts_no_clamp(_, _, _)
resolve_parts_no_clamp(ns, target, parts) ==
    IF parts = <<>> THEN [ok |-> TRUE, err |-> "", target |-> target]
    ELSE
      LET part == Head(parts) IN
      IF part = <<".", ".">>
      THEN IF ns[target].parent # None
           THEN resolve_parts_no_clamp(ns, ns[target].parent, Tail(parts))
           ELSE [ok |-> FALSE, err |-> "AlreadyAtRoot", target |-> target]
      ELSE IF part = <<".">> THEN resolve_parts_no_clamp(ns, target, Tail(parts))
      ELSE
        LET child == get_child(ns, target, part) IN
        IF child = None THEN [ok |-> FALSE, err |-> "PathNotFound", target |-> target]
        ELSE IF ~IsDirectory(ns, child)
        THEN [ok |-> FALSE, err |-> "NotADirectory", target |-> target]
        ELSE resolve_parts_no_clamp(ns, child, Tail(parts))

\* the loop of change_directory over the parts, from the scratch pointer
\* target: [ok, err, target]
RECURSIVE resolve_parts(_, _, _)
resolve_parts(ns, target, parts) ==
    IF parts = <<>> THEN [ok |-> TRUE, err |-> "", target |-> target]
    ELSE
      LET part == Head(parts) IN
      IF part = <<".", ".">>
      THEN resolve_parts(ns, IF ns[target].parent # None THEN ns[target].parent ELSE target,
                         Tail(parts))
      ELSE IF part = <<".">> THEN resolve_parts(ns, target, Tail(parts))
      ELSE
        LET child == get_child(ns, target, part) IN
        IF child = None THEN [ok |-> FALSE, err |-> "PathNotFound", target |-> target]
        ELSE IF ~IsDirectory(ns, child)
        THEN [ok |-> FALSE, err |-> "NotADirectory", target |-> target]
        ELSE resolve_parts(ns, child, Tail(parts))

\* (mutant) the parts are resolved with current_directory itself instead of
\* a scratch pointer: a failure leaves the cursor where resolution stopped
change_directory_no_scratch(path) ==
    IF mode = SINGLE_LEVEL THEN Fail("change_directory", <<path>>, "UnsupportedOperation")
    ELSE IF path = <<".", ".">>
    THEN IF nodes[current_directory].parent = None
         THEN Fail("change_directory", <<path>>, "AlreadyAtRoot")
         ELSE /\ current_directory' = nodes[current_directory].parent
              /\ ret' = Return("change_directory", <<path>>, TRUE, "")
              /\ UNCHANGED <<nodes, root, mode, operation_log, clock>>
    ELSE IF path = <<".">> \/ path = <<>>
    THEN /\ ret' = Return("change_directory", <<path>>, TRUE, "")
         /\ UNCHANGED <<nodes, root, current_directory, mode, operation_log, clock>>
    ELSE
      LET start == IF startswith(path, "/") THEN root ELSE current_directory
          r == resolve_parts(nodes, start, path_parts(path))
      IN
      /\ current_directory' = r.target
      /\ ret' = Return("change_directory", <<path>>, r.ok, r.err)
      /\ UNCHANGED <<nodes, root, mode, operation_log, clock>>

\* (mutant) the single-level test comes after the tests for "..", "." and ""
change_directory_single_late(path) ==
    IF path = <<".", ".">>
    THEN IF nodes[current_directory].parent = None
         THEN Fail("change_directory", <<path>>, "AlreadyAtRoot")
         ELSE /\ current_directory' = nodes[current_directory].parent
              /\ ret' = Return("change_directory", <<path>>, TRUE, "")
              /\ UNCHANGED <<nodes, root, mode, operation_log, clock>>
    ELSE IF path = <<".">> \/ path = <<>>
    THEN /\ ret' = Return("change_directory", <<path>>, TRUE, "")
         /\ UNCHANGED <<nodes, root, current_directory, mode, operation_log, clock>>
    ELSE IF mode = SINGLE_LEVEL THEN Fail("change_directory", <<path>>, "UnsupportedOperation")
    ELSE
      LET start == IF startswith(path, "/") THEN root ELSE current_directory
          r == resolve_parts(nodes, start, path_parts(path))
      IN
      IF ~r.ok THEN Fail("change_directory", <<path>>, r.err)
      ELSE /\ current_directory' = r.target
           /\ ret' = Return("change_directory", <<path>>, TRUE, "")
           /\ UNCHANGED <<nodes, root, mode, operation_log, clock>>

\* FileSystemManager.change_directory
change_directory(path) ==
    IF mode = SINGLE_LEVEL THEN Fail("change_directory", <<path>>, "UnsupportedOperation")
    ELSE IF path = <<".", ".">>
    THEN IF nodes[current_directory].parent = None
         THEN Fail("change_directory", <<path>>, "AlreadyAtRoot")
         ELSE /\ current_directory' = nodes[current_directory].parent
              /\ ret' = Return("change_directory", <<path>>, TRUE, "")
              /\ UNCHANGED <<nodes, root, mode, operation_log, clock>>
    ELSE IF path = <<".">> \/ path = <<>>
    THEN /\ ret' = Return("change_directory", <<path>>, TRUE, "")
         /\ UNCHANGED <<nodes, root, current_directory, mode, operation_log, clock>>
    ELSE
      LET start == IF startswith(path, "/") THEN root ELSE current_directory
          r == resolve_parts(nodes, start, path_parts(path))
      IN
      IF ~r.ok THEN Fail("change_directory", <<path>>, r.err)
      ELSE /\ current_directory' = r.target
           /\ ret' = Return("change_directory", <<path>>, TRUE, "")
           /\ UNCHANGED <<nodes, root, mode, operation_log, clock>>

\* FileSystemManager.get_current_path
get_current_path == get_path(nodes, current_directory)

-----------------------------------------------------------------------------
(* filesystem.py: the read-only operations *)

\* ord(c) for the characters of the model's alphabet (their ASCII codes)
ord(c) ==
    CASE c = "+" -> 43 [] c = "." -> 46 [] c = "/" -> 47
      [] c = "A" -> 65 [] c = "B" -> 66 [] c = "T" -> 84 [] c = "X" -> 88
      [] c = "a" -> 97 [] c = "b" -> 98 [] c = "t" -> 116 [] c = "x" -> 120

\* s < t for two str: the first differing character decides, a proper prefix
\* is smaller
RECURSIVE str_lt(_, _)
str_lt(s, t) ==
    IF t = <<>> THEN FALSE
    ELSE IF s = <<>> THEN TRUE
    ELSE IF Head(s) # Head(t) THEN ord(Head(s)) < ord(Head(t))
    ELSE str_lt(Tail(s), Tail(t))

\* (mutant) the records are compared by name alone
sort_key_lt_name_only(x, y) == str_lt(x.name, y.name)

\* the key of list_contents' sort, (x['type'] == 'File', x['name']): tuples
\* compare by their first component (False < True), then by the second
sort_key_lt(x, y) ==
    IF (x.type = "File") # (y.type = "File") THEN y.type = "File"
    ELSE str_lt(x.name, y.name)

\* sorted(): record x put into the sorted list after every record that is
\* not greater (the sort is stable)
RECURSIVE insort(_, _)
insort(sorted, x) ==
    IF sorted = <<>> THEN <<x>>
    ELSE IF sort_key_lt(x, Head(sorted)) THEN <<x>> \o sorted
    ELSE <<Head(sorted)>> \o insort(Tail(sorted), x)

RECURSIVE sorted_by_key(_)
sorted_by_key(contents) ==
    IF contents = <<>> THEN <<>>
    ELSE insort(sorted_by_key(SubSeq(contents, 1, Len(contents) - 1)),
                contents[Len(contents)])

\* FileSystemManager.list_contents: the list it returns (created is the
\* node's created_at, which the code formats for display)
list_contents ==
    LET children == nodes[current_directory].children
        contents == [i \in 1..Len(children) |->
                        [name |-> children[i].key,
                         type |-> IF IsDirectory(nodes, children[i].node) THEN "Dir" ELSE "File",
                         size |-> format_size(nodes[children[i].node].size),
                         created |-> nodes[children[i].node].created_at]]
    IN sorted_by_key(contents)

\* FileSystemManager.get_logs
get_logs == operation_log

\* the box-drawing characters of the tree text, each one character of the
\* text, written here by its code point
BoxElbow == "U+2514"
BoxTee == "U+251C"
BoxDash == "U+2500"
BoxBar == "U+2502"

\* FileSystemManager._build_tree: the text for the children of directory
\* from position i on, in the order of list(directory.children.values())
RECURSIVE _build_tree(_, _, _, _)
_build_tree(ns, directory, prefix, i) ==
    IF i > Len(ns[directory].children) THEN <<>>
    ELSE
      LET child == ns[directory].children[i].node
          is_last_child == (i = Len(ns[directory].children))
          connector == IF is_last_child THEN <<" ", BoxElbow, BoxDash, BoxDash, " ">>
                       ELSE <<" ", BoxTee, BoxDash, BoxDash, " ">>
          new_prefix == prefix \o (IF is_last_child THEN <<" ", " ", " ", " ", " ">>
                                   ELSE <<" ", BoxBar, " ", " ", " ">>)
          result == IF IsDirectory(ns, child)
                    THEN prefix \o connector \o ns[child].name \o <<"/", "\n">>
                         \o _build_tree(ns, child, new_prefix, 1)
                    ELSE prefix \o connector \o ns[child].name \o <<"\n">>
      IN result \o _build_tree(ns, directory, prefix, i + 1)

\* FileSystemManager.get_tree
get_tree == _build_tree(nodes, current_directory, <<>>, 1)

\* str.rstrip() for the white space of the tree text
RECURSIVE rstrip(_)
rstrip(s) ==
    IF s # <<>> /\ s[Len(s)] \in {" ", "\n"} THEN rstrip(SubSeq(s, 1, Len(s) - 1)) ELSE s

\* FileSystemManager.get_full_tree
get_full_tree == rstrip(<<"R", "o", "o", "t", "/", "\n">> \o _build_tree(nodes, root, <<>>, 1))

\* a call that only reads the manager: list_contents, get_current_path,
\* get_tree / get_full_tree (which render text from the children maps) and
\* get_logs assign nothing
reads(op) ==
    /\ ret' = Return(op, <<>>, TRUE, "")
    /\ UNCHANGED <<nodes, root, current_directory, mode, operation_log, clock>>

-----------------------------------------------------------------------------
(* filesystem.py: search *)

\* str.replace(c, by) for a one-character c
RECURSIVE replace(_, _, _)
replace(s, c, by) ==
    IF s = <<>> THEN <<>>
    ELSE (IF Head(s) = c THEN by ELSE <<Head(s)>>) \o replace(Tail(s), c, by)

\* the regular expression _matches_pattern builds from the query, without
\* the ^ and $ it is anchored with
regex_pattern(pattern) ==
    replace(replace(replace(pattern, ".", <<"\\", ".">>), "*", <<".", "*">>), "?", <<".">>)

\* re's reading of that expression, for the characters of the model's
\* alphabet: a sequence of items [any, ch, q], an item being `.` (any) or a
\* literal character (ch, possibly written escaped), q its quantifier
\* ("1", "*" or "+")
RECURSIVE regex_items(_)
regex_items(re) ==
    IF re = <<>> THEN <<>>
    ELSE
      LET esc == Head(re) = "\\" /\ Len(re) >= 2
          used == IF esc THEN 2 ELSE 1
          ch == IF esc THEN re[2] ELSE re[1]
          any == ~esc /\ re[1] = "."
          q == IF Len(re) > used /\ re[used + 1] \in {"*", "+"} THEN re[used + 1] ELSE "1"
          rest == SubSeq(re, used + (IF q = "1" THEN 1 ELSE 2), Len(re))
      IN <<[any |-> any, ch |-> ch, q |-> q]>> \o regex_items(rest)

\* str.lower() on the letters of the model's alphabet (re.IGNORECASE)
lower(c) ==
    CASE c = "A" -> "a" [] c = "B" -> "b" [] c = "T" -> "t" [] c = "X" -> "x"
      [] OTHER -> c

item_accepts(item, c) == item.any \/ lower(item.ch) = lower(c)

\* re.match of the anchored expression against the whole of s
RECURSIVE regex_match(_, _)
regex_match(items, s) ==
    IF items = <<>> THEN s = <<>>
    ELSE
      LET it == Head(items) IN
      CASE it.q = "1" ->
             s # <<>> /\ item_accepts(it, Head(s)) /\ regex_match(Tail(items), Tail(s))
        [] it.q = "*" ->
             \/ regex_match(Tail(items), s)
             \/ s # <<>> /\ item_accepts(it, Head(s)) /\ regex_match(items, Tail(s))
        [] it.q = "+" ->
             s # <<>> /\ item_accepts(it, Head(s))
                 /\ regex_match(<<[it EXCEPT !.q = "*"]>> \o Tail(items), Tail(s))

\* FileSystemManager._matches_pattern
_matches_pattern(name, pattern) == regex_match(regex_items(regex_pattern(pattern)), name)

\* (mutant) the directory is searched before its own name is tested
RECURSIVE _search_recursive_descends_first(_, _, _, _)
_search_recursive_descends_first(ns, directory, query, i) ==
    IF i > Len(ns[directory].children) THEN <<>>
    ELSE
      LET name == ns[directory].children[i].key
          node == ns[directory].children[i].node
          hit == IF _matches_pattern(name, query)
                 THEN <<[name |-> name, path |-> get_path(ns, node),
                         type |-> IF IsDirectory(ns, node) THEN "Dir" ELSE "File",
                         size |-> format_size(ns[node].size)]>>
                 ELSE <<>>
          below == IF IsDirectory(ns, node)
                   THEN _search_recursive_descends_first(ns, node, query, 1)
                   ELSE <<>>
      IN below \o hit \o _search_recursive_descends_first(ns, directory, query, i + 1)

\* FileSystemManager._search_recursive: the results appended while walking
\* the entries of directory from position i on
RECURSIVE _search_recursive(_, _, _, _)
_search_recursive(ns, directory, query, i) ==
    IF i > Len(ns[directory].children) THEN <<>>
    ELSE
      LET name == ns[directory].children[i].key
          node == ns[directory].children[i].node
          hit == IF _matches_pattern(name, query)
                 THEN <<[name |-> name, path |-> get_path(ns, node),
                         type |-> IF IsDirectory(ns, node) THEN "Dir" ELSE "File",
                         size |-> format_size(ns[node].size)]>>
                 ELSE <<>>
          below == IF IsDirectory(ns, node) THEN _search_recursive(ns, node, query, 1)
                   ELSE <<>>
      IN hit \o below \o _search_recursive(ns, directory, query, i + 1)

\* the list search returns
search_results(query) == _search_recursive(nodes, current_directory, query, 1)

\* (mutant) a search that finds nothing is not logged
search_logs_only_hits(query) ==
    LET results == search_results(query)
        parts == split(results[1].path, "/")
        found_in == IF Len(parts) > 1 /\ parts[Len(parts) - 1] # <<>>
                    THEN parts[Len(parts) - 1] ELSE RootWord
    IN
    /\ operation_log' = IF results # <<>>
                        THEN _log_operation(operation_log,
                                 [text |-> "Search performed - Found in", a |-> query,
                                  b |-> found_in], clock)
                        ELSE operation_log
    /\ ret' = Return("search", <<query>>, TRUE, "")
    /\ UNCHANGED <<nodes, root, current_directory, mode, clock>>

\* FileSystemManager.search
search(query) ==
    LET results == search_results(query)
        parts == split(results[1].path, "/")
        found_in == IF Len(parts) > 1 /\ parts[Len(parts) - 1] # <<>>
                    THEN parts[Len(parts) - 1] ELSE RootWord
        message == IF results # <<>>
                   THEN [text |-> "Search performed - Found in", a |-> query, b |-> found_in]
                   ELSE [text |-> "Search performed - No results found", a |-> query, b |-> <<>>]
    IN
    /\ operation_log' = _log_operation(operation_log, message, clock)
    /\ ret' = Return("search", <<query>>, TRUE, "")
    /\ UNCHANGED <<nodes, root, current_directory, mode, clock>>

-----------------------------------------------------------------------------
(* The specification *)

\* FileSystemManager.__init__
Init ==
    /\ nodes = Alloc(EmptyHeap, DirectoryNode(<<>>, None, 0))
    /\ root = NewId(EmptyHeap)
    /\ current_directory = NewId(EmptyHeap)
    /\ mode = HIERARCHICAL
    /\ operation_log = <<>>
    /\ clock = 0
    /\ ret = Idle

\* the names the calls are made with: two that _validate_name accepts ...
NameA == <<"a">>
NameBT == <<"b", ".", "t">>
ValidNames == {NameA, NameBT}

\* ... and three it refuses
NameEmpty == <<>>
NameSlash == <<"a", "/", "b">>
NameLong == [i \in 1..256 |-> "x"]
InvalidNames == {NameEmpty, NameSlash, NameLong}

NameInputs == ValidNames \cup InvalidNames

ModeInputs == {SINGLE_LEVEL, TWO_LEVEL, HIERARCHICAL, "flat"}

SizeInputs == {NoSize}

RandInputs == {1}

\* the paths change_directory is called with: the text, and how the text
\* reads (absolute or not, and its non-empty segments in order)
PathTable ==
    { [text |-> <<>>,                               abs |-> FALSE, segs |-> <<>>],
      [text |-> <<".">>,                            abs |-> FALSE, segs |-> << <<".">> >>],
      [text |-> <<".", ".">>,                       abs |-> FALSE, segs |-> << <<".", ".">> >>],
      [text |-> <<"/">>,                            abs |-> TRUE,  segs |-> <<>>],
      [text |-> <<"a">>,                            abs |-> FALSE, segs |-> <<NameA>>],
      [text |-> <<"b", ".", "t">>,                  abs |-> FALSE, segs |-> <<NameBT>>],
      [text |-> <<"a", "/", "a">>,                  abs |-> FALSE, segs |-> <<NameA, NameA>>],
      [text |-> <<"a", "/", "b", ".", "t">>,        abs |-> FALSE, segs |-> <<NameA, NameBT>>],
      [text |-> <<"/", "a", "/", "a">>,             abs |-> TRUE,  segs |-> <<NameA, NameA>>],
      [text |-> <<".", ".", "/", "a">>,             abs |-> FALSE, segs |-> << <<".", ".">>, NameA >>],
      [text |-> <<"/", ".", ".", "/", ".", ".">>,   abs |-> TRUE,
                                        segs |-> << <<".", ".">>, <<".", ".">> >>],
      [text |-> <<"a", "/", ".", "/", ".", ".">>,   abs |-> FALSE,
                                        segs |-> << NameA, <<".">>, <<".", ".">> >>],
      [text |-> <<"/", "/", "a", "/">>,             abs |-> TRUE,  segs |-> <<NameA>>] }

PathInputs == {p.text : p \in PathTable}

QueryInputs == { <<"*", ".", "t">> }

\* the model's bound on the state after a step
Bounded(maxLog) == Len(operation_log) <= maxLog

\* main.py, CLI.run: one command is executed at a time; its result is printed
\* and the loop is back at its prompt
Prompt ==
    /\ ret # Idle
    /\ ret' = Idle
    /\ UNCHANGED <<nodes, root, current_directory, mode, operation_log, clock>>

DoSetMode == ret = Idle /\ \E m \in ModeInputs : set_mode(m)

DoReset ==
    /\ ret = Idle
    /\ _reset_filesystem
    /\ ret' = Return("_reset_filesystem", <<>>, TRUE, "")
    /\ UNCHANGED <<mode, clock>>

DoCreateFile ==
    /\ ret = Idle
    /\ \E name \in NameInputs, size \in SizeInputs, rnd \in RandInputs :
          create_file(name, size, rnd) /\ Bounded(MaxLog)'

DoCreateDirectory ==
    /\ ret = Idle
    /\ \E name \in NameInputs : create_directory(name) /\ Bounded(MaxLog)'

DoDelete ==
    /\ ret = Idle
    /\ \E name \in ValidNames, recursive \in BOOLEAN :
          delete(name, recursive) /\ Bounded(MaxLog)'

DoRename ==
    /\ ret = Idle
    /\ \E old_name \in ValidNames, new_name \in NameInputs :
          rename(old_name, new_name) /\ Bounded(MaxLog)'

DoGetInfo == ret = Idle /\ \E name \in ValidNames : get_info(name)

DoChangeDirectory == ret = Idle /\ \E path \in PathInputs : change_directory(path)

DoSearch == ret = Idle /\ \E query \in QueryInputs : search(query) /\ Bounded(MaxLog)'

DoListContents == ret = Idle /\ reads("list_contents")

DoGetCurrentPath == ret = Idle /\ reads("get_current_path")

DoGetTree == ret = Idle /\ \E op \in {"get_tree", "get_full_tree"} : reads(op)

DoGetLogs == ret = Idle /\ reads("get_logs")

Next ==
    \/ DoSetMode
    \/ DoReset
    \/ DoCreateFile
    \/ DoCreateDirectory
    \/ DoDelete
    \/ DoRename
    \/ DoGetInfo
    \/ DoChangeDirectory
    \/ DoSearch
    \/ DoListContents
    \/ DoGetCurrentPath
    \/ DoGetTree
    \/ DoGetLogs
    \/ Prompt

Spec == Init /\ [][Next]_vars

\* The deep-nesting specification: from __init__ (hierarchical mode), one
\* directory name, so that the tree is a single chain that can grow to
\* max_depth and beyond
DeepPathInputs == { <<"a">>, <<".", ".">>, <<"/">>, <<"a", "/", "a">> }

DeepSetMode == ret = Idle /\ set_mode(HIERARCHICAL)

DeepCreateDirectory ==
    /\ ret = Idle
    /\ \E name \in {NameA, NameEmpty} : create_directory(name) /\ Bounded(MaxDeepLog)'

DeepChangeDirectory == ret = Idle /\ \E path \in DeepPathInputs : change_directory(path)

NextDeep ==
    \/ DeepSetMode
    \/ DeepCreateDirectory
    \/ DeepChangeDirectory
    \/ Prompt

SpecDeep == Init /\ [][NextDeep]_vars

\* The specification where time passes: datetime.now() (clock) advances
\* between commands; from __init__, with valid names only
NameDots == <<"t", ".", "b", ".", "x">>
ClockNames == {NameA, NameBT, NameDots}

ClockPathInputs == { <<"a">>, <<".", ".">> }

Tick ==
    /\ ret = Idle
    /\ clock < MaxClock
    /\ clock' = clock + 1
    /\ UNCHANGED <<nodes, root, current_directory, mode, operation_log, ret>>

ClockCreateFile ==
    /\ ret = Idle
    /\ \E name \in {NameA, NameBT}, size \in SizeInputs, rnd \in RandInputs :
          create_file(name, size, rnd) /\ Bounded(MaxClockLog)'

ClockCreateDirectory == ret = Idle /\ create_directory(NameA) /\ Bounded(MaxClockLog)'

ClockDelete ==
    /\ ret = Idle
    /\ \E name \in {NameA, NameBT}, recursive \in BOOLEAN :
          delete(name, recursive) /\ Bounded(MaxClockLog)'

ClockRename ==
    /\ ret = Idle
    /\ \E old_name \in ClockNames, new_name \in ClockNames :
          rename(old_name, new_name) /\ Bounded(MaxClockLog)'

ClockGetInfo == ret = Idle /\ get_info(NameA)

ClockChangeDirectory == ret = Idle /\ \E path \in ClockPathInputs : change_directory(path)

ClockSearch == ret = Idle /\ \E query \in QueryInputs : search(query) /\ Bounded(MaxClockLog)'

NextClock ==
    \/ Tick
    \/ ClockCreateFile
    \/ ClockCreateDirectory
    \/ ClockDelete
    \/ ClockRename
    \/ ClockGetInfo
    \/ ClockChangeDirectory
    \/ ClockSearch
    \/ DoListContents
    \/ DoGetCurrentPath
    \/ DoGetTree
    \/ DoGetLogs
    \/ Prompt

SpecClock == Init /\ [][NextClock]_vars

\* The search specification: from __init__ (hierarchical mode), two file
\* names, one directory name and two queries
NameUpper == <<"B", ".", "T">>
NameTail == <<"b", ".", "T", ".", "x">>
NameAA == <<"a", "a">>
SearchFileNames == {NameUpper, NameTail}

QueryStarT == <<"*", ".", "t">>
QueryAll == <<"*">>
SearchQueries == {QueryStarT, QueryAll}

SearchPathInputs == { NameAA, <<".", ".">> }

SearchCreateFile ==
    /\ ret = Idle
    /\ \E name \in SearchFileNames, size \in SizeInputs, rnd \in RandInputs :
          create_file(name, size, rnd) /\ Bounded(MaxSearchLog)'

SearchCreateDirectory == ret = Idle /\ create_directory(NameAA) /\ Bounded(MaxSearchLog)'

SearchChangeDirectory == ret = Idle /\ \E path \in SearchPathInputs : change_directory(path)

SearchSearch ==
    /\ ret = Idle
    /\ \E query \in SearchQueries : search(query) /\ Bounded(MaxSearchLog)'

NextSearch ==
    \/ SearchCreateFile
    \/ SearchCreateDirectory
    \/ SearchChangeDirectory
    \/ SearchSearch
    \/ Prompt

SpecSearch == Init /\ [][NextSearch]_vars

\* The match-test specification: from __init__, files made in the root
\* under names in both cases, with dots and with a "+", and searched with
\* queries that have "*", "?", "." and "+" in them
NamePlus == <<"a", "+">>
NameBXT == <<"b", "x", "t">>
MatchNames == {NamePlus, NameAA, NameBT, NameUpper, NameTail, NameBXT}

QueryPlus == <<"a", "+">>
QueryOne == <<"b", "?", "t">>
QueryDot == <<"B", ".", "t">>
MatchQueries == {QueryStarT, QueryPlus, QueryOne, QueryDot, QueryAll}

MatchCreateFile ==
    /\ ret = Idle
    /\ \E name \in MatchNames, size \in SizeInputs, rnd \in RandInputs :
          create_file(name, size, rnd) /\ Bounded(MaxMatchLog)'

MatchSearch ==
    /\ ret = Idle
    /\ \E query \in MatchQueries : search(query) /\ Bounded(MaxMatchLog)'

NextMatch ==
    \/ MatchCreateFile
    \/ MatchSearch
    \/ Prompt

SpecMatch == Init /\ [][NextMatch]_vars

\* The listing specification: from __init__, two file names and two
\* directory names, in both cases, entered in any order
ListFileNames == {NameUpper, NameAA}
ListDirectoryNames == {NameBT, NamePlus}

ListPathInputs == { NamePlus, <<".", ".">> }

ListCreateFile ==
    /\ ret = Idle
    /\ \E name \in ListFileNames, size \in SizeInputs, rnd \in RandInputs :
          create_file(name, size, rnd) /\ Bounded(MaxListLog)'

ListCreateDirectory ==
    /\ ret = Idle
    /\ \E name \in ListDirectoryNames : create_directory(name) /\ Bounded(MaxListLog)'

ListChangeDirectory == ret = Idle /\ \E path \in ListPathInputs : change_directory(path)

NextList ==
    \/ ListCreateFile
    \/ ListCreateDirectory
    \/ ListChangeDirectory
    \/ DoListContents
    \/ Prompt

SpecList == Init /\ [][NextList]_vars

\* The size specification: from __init__, create_file with and without a
\* size argument
SizeArguments ==
    {NoSize, <<0 - 1>>, <<0>>, <<512>>, <<1023>>, <<1024>>, <<1280>>, <<2048>>,
     <<1048575>>, <<1048576>>, <<3145728>>}

SizeRandInputs == {1, 100}

SizeCreateFile ==
    /\ ret = Idle
    /\ \E name \in ValidNames, size \in SizeArguments, rnd \in SizeRandInputs :
          create_file(name, size, rnd) /\ Bounded(MaxSizeLog)'

SizeCreateDirectory == ret = Idle /\ create_directory(NameA) /\ Bounded(MaxSizeLog)'

SizeGetInfo == ret = Idle /\ \E name \in ValidNames : get_info(name)

NextSize ==
    \/ SizeCreateFile
    \/ SizeCreateDirectory
    \/ SizeGetInfo
    \/ DoListContents
    \/ Prompt

SpecSize == Init /\ [][NextSize]_vars

\* The check-order specification: the three modes, one valid name for files
\* and directories (so that the tree is a chain that can reach max_depth),
\* and names that fail one or two of the tests of _validate_name
NameLongSlash == [i \in 1..256 |-> IF i = 1 THEN "/" ELSE "x"]
OrderNames == {NameA, NameEmpty, NameSlash, NameLong, NameLongSlash}

OrderPathInputs == { NameA, <<".", ".">> }

OrderSetMode == ret = Idle /\ \E m \in {SINGLE_LEVEL, TWO_LEVEL, HIERARCHICAL} : set_mode(m)

OrderCreateFile ==
    /\ ret = Idle
    /\ \E size \in SizeInputs, rnd \in RandInputs :
          create_file(NameA, size, rnd) /\ Bounded(MaxOrderLog)'

OrderCreateDirectory ==
    /\ ret = Idle
    /\ \E name \in OrderNames : create_directory(name) /\ Bounded(MaxOrderLog)'

OrderChangeDirectory == ret = Idle /\ \E path \in OrderPathInputs : change_directory(path)

NextOrder ==
    \/ OrderSetMode
    \/ OrderCreateFile
    \/ OrderCreateDirectory
    \/ OrderChangeDirectory
    \/ Prompt

SpecOrder == Init /\ [][NextOrder]_vars

\* The path round-trip specification: the two modes with directories,
\* directory names that _validate_name accepts, "." and ".." among them, and
\* change_directory called with the get_path() of a directory of the tree
\* (or with a relative path that moves the cursor)
NameDot == <<".">>
NameDotDot == <<".", ".">>
PathNames == {NameA, NameDot, NameDotDot}

PathSetMode == ret = Idle /\ \E m \in {TWO_LEVEL, HIERARCHICAL} : set_mode(m)

PathCreateDirectory ==
    /\ ret = Idle
    /\ \E name \in PathNames : create_directory(name) /\ Bounded(MaxPathLog)'

PathChangeDirectory ==
    /\ ret = Idle
    /\ \E path \in {get_path(nodes, d) : d \in {n \in DOMAIN nodes : IsDirectory(nodes, n)}}
                    \cup {NameA, NameDotDot} :
          change_directory(path)

NextPath ==
    \/ PathSetMode
    \/ PathCreateDirectory
    \/ PathChangeDirectory
    \/ Prompt

SpecPath == Init /\ [][NextPath]_vars

\* The rename-order specification: from __init__ (hierarchical mode), two
\* file names and a directory name, so that a directory can hold three
\* entries, and a fourth name to rename them to
RenameFileNames == {NameA, NameBT}
RenameNewNames == {NameDots, NameA, NameSlash}

RenameCreateFile ==
    /\ ret = Idle
    /\ \E name \in RenameFileNames, size \in SizeInputs, rnd \in RandInputs :
          create_file(name, size, rnd) /\ Bounded(MaxRenameLog)'

RenameCreateDirectory ==
    /\ ret = Idle
    /\ create_directory(NameAA) /\ Bounded(MaxRenameLog)'

RenameRename ==
    /\ ret = Idle
    /\ \E old_name \in RenameFileNames \cup {NameAA, NameDots}, new_name \in RenameNewNames :
          rename(old_name, new_name) /\ Bounded(MaxRenameLog)'

RenameChangeDirectory ==
    /\ ret = Idle
    /\ \E path \in {NameAA, <<".", ".">>} : change_directory(path)

NextRename ==
    \/ RenameCreateFile
    \/ RenameCreateDirectory
    \/ RenameRename
    \/ RenameChangeDirectory
    \/ Prompt

SpecRename == Init /\ [][NextRename]_vars

-----------------------------------------------------------------------------
(* The tree as the claims see it: from the root down the children entries *)

\* the nodes entered in the children of the directories of S
EnteredIn(ns, S) ==
    UNION {IF n \in DOMAIN ns /\ IsDirectory(ns, n) THEN child_nodes(ns, n) ELSE {} : n \in S}

\* the nodes k children edges below the root
RECURSIVE Layer(_)
Layer(k) == IF k = 0 THEN {root} ELSE EnteredIn(nodes, Layer(k - 1))

\* every node reachable from the root along children edges
TreeNodes == UNION {Layer(k) : k \in 0..Cardinality(DOMAIN nodes)}

\* how many children edges below the root a node of the tree is
Level(n) == CHOOSE k \in 0..Cardinality(DOMAIN nodes) : n \in Layer(k)

\* the entries <<d, i>> of children maps that hold node n
OwnerEntries(n) ==
    {e \in {<<d, i>> : d \in {m \in DOMAIN nodes : IsDirectory(nodes, m)},
                       i \in 1..Cardinality(DOMAIN nodes)} :
        /\ e[2] <= Len(nodes[e[1]].children)
        /\ nodes[e[1]].children[e[2]].node = n}

\* the node k parent references above n (None past the root)
RECURSIVE Up(_, _)
Up(n, k) ==
    IF k = 0 \/ n = None \/ n \notin DOMAIN nodes THEN n ELSE Up(nodes[n].parent, k - 1)

\* the keys from the root down to node n of the tree
RECURSIVE NamePath(_)
NamePath(n) ==
    IF n = root THEN <<>>
    ELSE LET e == CHOOSE e \in OwnerEntries(n) : TRUE
         IN Append(NamePath(e[1]), nodes[e[1]].children[e[2]].key)

\* the node reached from the root by descending along the keys np (None
\* when a key names no entry or the descent meets a file)
NodeAt(np) ==
    LET found == {n \in TreeNodes : NamePath(n) = np} IN
    IF found = {} THEN None ELSE CHOOSE n \in found : TRUE

\* a path read as the claims read it: from the position np (the keys from
\* the root), the segments left to right: "." stays, ".." drops the last
\* key (at the root it stays), a name must be a child (else "missing") that
\* is a directory (else "file")
RECURSIVE Walk(_, _)
Walk(np, segs) ==
    IF segs = <<>> THEN [outcome |-> "ok", at |-> np]
    ELSE
      LET seg == Head(segs) IN
      IF seg = <<".">> THEN Walk(np, Tail(segs))
      ELSE IF seg = <<".", ".">>
      THEN Walk(IF np = <<>> THEN <<>> ELSE SubSeq(np, 1, Len(np) - 1), Tail(segs))
      ELSE
        LET c == NodeAt(Append(np, seg)) IN
        IF c = None THEN [outcome |-> "missing", at |-> np]
        ELSE IF ~IsDirectory(nodes, c) THEN [outcome |-> "file", at |-> np]
        ELSE Walk(Append(np, seg), Tail(segs))

\* where a path of the table starts
StartOf(p) == IF p.abs THEN <<>> ELSE NamePath(current_directory)

\* "/" for the root, else "/" before each key
RECURSIVE Slashed(_)
Slashed(np) ==
    IF np = <<>> THEN <<"/">>
    ELSE IF Len(np) = 1 THEN <<"/">> \o np[1]
    ELSE Slashed(SubSeq(np, 1, Len(np) - 1)) \o <<"/">> \o np[Len(np)]

ValidModes == {SINGLE_LEVEL, TWO_LEVEL, HIERARCHICAL}

ManagerOps ==
    {"set_mode", "create_file", "create_directory", "delete", "rename", "get_info",
     "change_directory"}

-----------------------------------------------------------------------------
(* Claims *)

\* C1: whenever set_mode, create_file, create_directory, delete, rename,
\* get_info or change_directory returns failure, the manager's state (mode,
\* tree with names, child order and parents, cursor, operation log) is the
\* state before the call.
FailureLeavesStateUnchanged ==
    [][(ret' # Idle /\ ret'.op \in ManagerOps /\ ~ret'.ok) => manager' = manager]_vars

\* C1 witness: a failed call in a state with a non-empty tree and log, the
\* cursor below the root
FailureWitness ==
    /\ ret.op \in ManagerOps /\ ~ret.ok
    /\ current_directory # root
    /\ Len(operation_log) >= 2
    /\ ~is_empty(nodes, current_directory)

\* C2: the cursor is always a directory node reachable from the current root
\* along children edges.
CursorIsReachableDirectory ==
    /\ current_directory \in DOMAIN nodes
    /\ IsDirectory(nodes, current_directory)
    /\ current_directory \in TreeNodes

\* C2 witness: directory a was made, a file was created in it, and a
\* recursive delete of a has just succeeded
CursorWitness ==
    /\ ret.op = "delete" /\ ret.ok /\ ret.args = <<NameA, TRUE>>
    /\ Len(operation_log) = 3
    /\ operation_log[1].message.text = "Folder created"
    /\ operation_log[2].message.text = "File created in"
    /\ operation_log[2].message.b = NameA
    /\ operation_log[3].message.text = "Folder deleted"

\* C3: every node reachable from the root, other than the root, is held by
\* exactly one children entry, under a key equal to its own name, and its
\* parent reference is the directory of that entry; the root has no parent;
\* sibling keys are distinct, only directories are parents, and following
\* parent references from any node ends at the root (no cycle).
TreeIsWellFormed ==
    /\ nodes[root].parent = None
    /\ \A n \in TreeNodes \ {root} :
          /\ Cardinality(OwnerEntries(n)) = 1
          /\ \A e \in OwnerEntries(n) :
                /\ nodes[e[1]].children[e[2]].key = nodes[n].name
                /\ nodes[n].parent = e[1]
    /\ \A d \in TreeNodes :
          IsDirectory(nodes, d) =>
             \A i, j \in 1..Len(nodes[d].children) :
                i # j => nodes[d].children[i].key # nodes[d].children[j].key
    /\ \A n \in TreeNodes :
          /\ nodes[n].parent # None => IsDirectory(nodes, nodes[n].parent)
          /\ ~IsDirectory(nodes, n) => "children" \notin DOMAIN nodes[n]
          /\ Up(n, Level(n)) = root
          /\ Up(n, Cardinality(DOMAIN nodes)) = None

\* C3 witness: a directory that holds a child has just been renamed
TreeWitness ==
    /\ ret.op = "rename" /\ ret.ok
    /\ LET n == get_child(nodes, current_directory, ret.args[2]) IN
          n # None /\ IsDirectory(nodes, n) /\ ~is_empty(nodes, n)

\* C4: set_mode with one of the three recognised modes succeeds and leaves
\* that mode, an empty root directory with the empty name, the cursor on the
\* root and an empty log, also when the mode was already the active one.
SetModeResets ==
    (ret.op = "set_mode" /\ ret.args[1] \in ValidModes) =>
        /\ ret.ok
        /\ mode = ret.args[1]
        /\ DOMAIN nodes = {root}
        /\ IsDirectory(nodes, root) /\ nodes[root].name = <<>>
        /\ nodes[root].children = <<>> /\ nodes[root].parent = None
        /\ current_directory = root
        /\ operation_log = <<>>
        /\ TreeNodes = {root}

\* C4 witness: set_mode("two-level") has returned success
SetModeWitness == ret.op = "set_mode" /\ ret.ok /\ ret.args[1] = TWO_LEVEL

\* C5 as stated: in single-level mode create_directory fails with
\* UnsupportedOperation for every name, valid or not.
SingleLevelAlwaysUnsupported ==
    (ret.op = "create_directory" /\ mode = SINGLE_LEVEL) =>
        ~ret.ok /\ ret.err = "UnsupportedOperation"

\* C5 amended: in single-level mode create_directory always fails, in every
\* reachable state: with UnsupportedOperation for every name _validate_name
\* accepts, and with the error of _validate_name (EmptyName,
\* InvalidCharacter, NameTooLong) for a name it refuses.
SingleLevelRefusesDirectories ==
    (ret.op = "create_directory" /\ mode = SINGLE_LEVEL) =>
        /\ ~ret.ok
        /\ ret.args[1] = NameEmpty => ret.err = "EmptyName"
        /\ ret.args[1] = NameSlash => ret.err = "InvalidCharacter"
        /\ ret.args[1] = NameLong => ret.err = "NameTooLong"
        /\ ret.args[1] \in ValidNames => ret.err = "UnsupportedOperation"

\* C5 witness: create_directory of a valid name was refused in single-level
\* mode, the root holding files
SingleLevelWitness ==
    /\ ret.op = "create_directory" /\ mode = SINGLE_LEVEL
    /\ ret.args[1] \in ValidNames /\ ret.err = "UnsupportedOperation"
    /\ Len(nodes[root].children) = 2

\* a create_directory step in two-level mode, for a valid name
TwoLevelStep ==
    \A name \in ValidNames :
        (/\ mode = TWO_LEVEL /\ ret = Idle
         /\ ret'.op = "create_directory" /\ ret'.args = <<name>>) =>
            IF Level(current_directory) >= 1
            THEN ~ret'.ok /\ ret'.err = "DepthExceeded" /\ manager' = manager
            ELSE IF ~has_child(nodes, current_directory, name)
            THEN /\ ret'.ok
                 /\ get_child(nodes', current_directory, name) # None
                 /\ IsDirectory(nodes', get_child(nodes', current_directory, name))
            ELSE ~ret'.ok /\ ret'.err = "AlreadyExists"

\* the depths of a two-level tree
TwoLevelDepth ==
    mode = TWO_LEVEL =>
        /\ \A n \in TreeNodes : IsDirectory(nodes, n) => Level(n) <= 1
        /\ Level(current_directory) <= 1

\* C6: in two-level mode create_directory of a valid name that names no
\* child of the cursor succeeds when the cursor is the root and fails with
\* DepthExceeded when the cursor is below the root; so every directory, and
\* the cursor, is at most one level below the root.
TwoLevelNesting == []TwoLevelDepth /\ [][TwoLevelStep]_vars

\* C6 witness: in two-level mode, with the cursor in a directory one level
\* below the root, create_directory has failed with DepthExceeded
TwoLevelWitness ==
    /\ mode = TWO_LEVEL
    /\ ret.op = "create_directory" /\ ret.err = "DepthExceeded"
    /\ Level(current_directory) = 1
    /\ Cardinality({n \in TreeNodes : IsDirectory(nodes, n)}) = 3

\* a create_directory step in hierarchical mode, for a valid name that names
\* no child of the cursor
HierarchicalStep ==
    \A name \in ValidNames :
        (/\ mode = HIERARCHICAL /\ ret = Idle
         /\ ret'.op = "create_directory" /\ ret'.args = <<name>>
         /\ ~has_child(nodes, current_directory, name)) =>
            IF Level(current_directory) < max_depth
            THEN /\ ret'.ok
                 /\ get_child(nodes', current_directory, name) # None
                 /\ IsDirectory(nodes', get_child(nodes', current_directory, name))
            ELSE ~ret'.ok /\ ret'.err = "DepthExceeded" /\ manager' = manager

\* the depths of a hierarchical tree
HierarchicalDepth ==
    mode = HIERARCHICAL => \A n \in TreeNodes : Level(n) <= max_depth

\* C7: in hierarchical mode create_directory of a name that names no child
\* of the cursor succeeds while the cursor is fewer than max_depth levels
\* below the root and fails with DepthExceeded when it is max_depth levels
\* below, so nesting from the empty root succeeds exactly max_depth (10)
\* times; and no node is ever more than max_depth levels below the root.
HierarchicalNesting == []HierarchicalDepth /\ [][HierarchicalStep]_vars

\* C7 witness: ten nested create_directory calls have succeeded from the
\* empty root, the cursor is ten levels down, and the eleventh has failed
\* with DepthExceeded
HierarchicalWitness ==
    /\ mode = HIERARCHICAL
    /\ ret.op = "create_directory" /\ ret.args = <<NameA>> /\ ret.err = "DepthExceeded"
    /\ Level(current_directory) = max_depth
    /\ Len(operation_log) = max_depth
    /\ Cardinality(TreeNodes) = max_depth + 1

\* C8: outside single-level mode change_directory resolves all-or-nothing:
\* when, reading the segments left to right, the first segment that cannot
\* be followed names no child it fails with PathNotFound, when it names a
\* file it fails with NotADirectory, and either way the cursor is the
\* directory it was before the call, whatever the earlier segments resolved.
ResolutionIsAllOrNothing ==
    [][\A p \in PathTable :
          (/\ mode # SINGLE_LEVEL /\ ret = Idle
           /\ ret'.op = "change_directory" /\ ret'.args = <<p.text>>) =>
              LET w == Walk(StartOf(p), p.segs) IN
              /\ w.outcome = "missing" =>
                    /\ ~ret'.ok /\ ret'.err = "PathNotFound"
                    /\ current_directory' = current_directory
              /\ w.outcome = "file" =>
                    /\ ~ret'.ok /\ ret'.err = "NotADirectory"
                    /\ current_directory' = current_directory]_vars

\* C8 witness: change_directory("a/b.t") has failed with NotADirectory (so
\* a resolved and b.t is a file in it), the cursor below the root
AllOrNothingWitness ==
    /\ ret.op = "change_directory" /\ ret.args = << <<"a", "/", "b", ".", "t">> >>
    /\ ret.err = "NotADirectory"
    /\ current_directory # root
    /\ get_child(nodes, current_directory, NameA) # None

\* C9: outside single-level mode a successful change_directory(path) leaves
\* the cursor on the directory reached from the root (path starting with
\* "/") or from the old cursor by processing the non-empty segments left
\* to right ("." stays, ".." to the parent, a name to that child directory);
\* get_current_path() is then "/" followed by the "/"-joined names from the
\* root to the cursor; the tree and the log are unchanged.
SuccessfulChangeDirectory ==
    [][\A p \in PathTable :
          (/\ mode # SINGLE_LEVEL /\ ret = Idle
           /\ ret'.op = "change_directory" /\ ret'.args = <<p.text>> /\ ret'.ok) =>
              LET w == Walk(StartOf(p), p.segs) IN
              /\ w.outcome = "ok"
              /\ current_directory' = NodeAt(w.at)
              /\ get_path(nodes', current_directory') = Slashed(w.at)
              /\ nodes' = nodes /\ root' = root
              /\ operation_log' = operation_log]_vars

\* C9 witness: change_directory("a/a") has succeeded and get_current_path()
\* is "/a/a"
ChangeDirectoryWitness ==
    /\ ret.op = "change_directory" /\ ret.ok /\ ret.args = << <<"a", "/", "a">> >>
    /\ get_current_path = <<"/", "a", "/", "a">>

\* C10: outside single-level mode, with the cursor on the root,
\* change_directory("..") fails with AlreadyAtRoot and the cursor stays on
\* the root, whereas any longer path is resolved with its ".." segments
\* clamped at the root: it never fails with AlreadyAtRoot, and it succeeds,
\* with the cursor where the remaining segments lead, exactly when those
\* can be followed.
DotDotAtRoot ==
    [][(/\ mode # SINGLE_LEVEL /\ ret = Idle /\ current_directory = root
        /\ ret'.op = "change_directory") =>
          /\ ret'.args = << <<".", ".">> >> =>
                ~ret'.ok /\ ret'.err = "AlreadyAtRoot" /\ current_directory' = root
          /\ \A p \in PathTable :
                (p.text # <<".", ".">> /\ ret'.args = <<p.text>>) =>
                   LET w == Walk(<<>>, p.segs) IN
                   /\ ret'.err # "AlreadyAtRoot"
                   /\ ret'.ok <=> w.outcome = "ok"
                   /\ ret'.ok => current_directory' = NodeAt(w.at)]_vars

\* C10 witness: with a non-empty tree, change_directory("/../..") has
\* succeeded (both ".." segments met the root) and the cursor is the root
DotDotWitness ==
    /\ ret.op = "change_directory" /\ ret.ok
    /\ ret.args = << <<"/", ".", ".", "/", ".", ".">> >>
    /\ current_directory = root
    /\ Len(nodes[root].children) = 2

\* C11: in single-level mode change_directory(path) fails with
\* UnsupportedOperation for every path, "", ".", ".." and "/" included, and
\* the cursor is (and stays) the root.
SingleLevelNoNavigation ==
    mode = SINGLE_LEVEL =>
        /\ current_directory = root
        /\ ret.op = "change_directory" =>
              ~ret.ok /\ ret.err = "UnsupportedOperation"

\* C11 witness: in single-level mode, the root holding two files,
\* change_directory("") has been refused
SingleLevelNavigationWitness ==
    /\ mode = SINGLE_LEVEL
    /\ ret.op = "change_directory" /\ ret.args = << <<>> >>
    /\ ret.err = "UnsupportedOperation"
    /\ Len(nodes[root].children) = 2

\* a create_file step for a valid name
CreateFileStep ==
    \A name \in ValidNames :
        (ret = Idle /\ ret'.op = "create_file" /\ ret'.args[1] = name) =>
            IF ~has_child(nodes, current_directory, name)
            THEN /\ ret'.ok
                 /\ current_directory' = current_directory
                 /\ LET f == get_child(nodes', current_directory, name) IN
                       /\ f # None /\ f \notin DOMAIN nodes
                       /\ ~IsDirectory(nodes', f)
                       /\ nodes'[f].name = name
                       /\ nodes'[f].parent = current_directory
            ELSE ~ret'.ok /\ ret'.err = "AlreadyExists" /\ manager' = manager

\* after a successful create_file the cursor holds a file of that name
CreatedFileIsHeld ==
    (ret.op = "create_file" /\ ret.ok) =>
        /\ has_child(nodes, current_directory, ret.args[1])
        /\ ~IsDirectory(nodes, get_child(nodes, current_directory, ret.args[1]))

\* C12: in every mode, for a valid name n that names no child of the cursor,
\* create_file(n) succeeds and the cursor's get_child(n) is then a file node
\* named n whose parent is the cursor; create_file of a name a child of the
\* cursor (file or directory) already has, as it is right after that success,
\* fails with AlreadyExists and changes nothing.
CreateFileOnce == []CreatedFileIsHeld /\ [][CreateFileStep]_vars

\* C12 witness: b.t has been created in a directory below the root, and the
\* create_file("b.t") that followed was refused with AlreadyExists
CreateFileWitness ==
    /\ ret.op = "create_file" /\ ret.args[1] = NameBT
    /\ ~ret.ok /\ ret.err = "AlreadyExists"
    /\ current_directory # root
    /\ operation_log # <<>>
    /\ operation_log[Len(operation_log)].message.text = "File created in"
    /\ operation_log[Len(operation_log)].message.a = NameBT
    /\ operation_log[Len(operation_log)].message.b = nodes[current_directory].name

\* the nodes below directory n of heap ns, along children edges
RECURSIVE Below(_, _, _)
Below(ns, S, k) == IF k = 0 THEN {} ELSE EnteredIn(ns, S) \cup Below(ns, EnteredIn(ns, S), k - 1)

Descendants(ns, n) == Below(ns, {n}, Cardinality(DOMAIN ns))

\* the positions of the "."s of a name, and the text after the last one
\* (empty when the name has none)
DotPositions(s) == {i \in 1..Len(s) : s[i] = "."}

AfterLastDot(s) ==
    IF DotPositions(s) = {} THEN <<>>
    ELSE LET last == CHOOSE i \in DotPositions(s) : \A j \in DotPositions(s) : j <= i
         IN SubSeq(s, last + 1, Len(s))

\* how many entries of directory d of heap ns have the key name
EntriesNamed(ns, d, name) ==
    Cardinality({i \in 1..Len(ns[d].children) : ns[d].children[i].key = name})

\* C13: a successful rename(old, new) in the cursor directory leaves no
\* child named old and exactly one child named new, which is the node that
\* was named old, with the same kind, size, created_at and modified_at and,
\* for a directory, the same children and an unchanged subtree; a file's
\* extension is then the text after the last "." of new (empty when new has
\* no "."); the cursor has as many children as before.
RenameKeepsNode ==
    [][\A old \in ClockNames, new \in ClockNames :
          (ret = Idle /\ ret'.op = "rename" /\ ret'.args = <<old, new>> /\ ret'.ok) =>
              LET n == get_child(nodes, current_directory, old) IN
              /\ n # None
              /\ current_directory' = current_directory
              /\ EntriesNamed(nodes', current_directory, old) = 0
              /\ EntriesNamed(nodes', current_directory, new) = 1
              /\ get_child(nodes', current_directory, new) = n
              /\ nodes'[n].name = new
              /\ nodes'[n].type = nodes[n].type
              /\ nodes'[n].size = nodes[n].size
              /\ nodes'[n].created_at = nodes[n].created_at
              /\ nodes'[n].modified_at = nodes[n].modified_at
              /\ IsDirectory(nodes, n) =>
                    /\ nodes'[n].children = nodes[n].children
                    /\ \A m \in Descendants(nodes, n) :
                          m \in DOMAIN nodes' /\ nodes'[m] = nodes[m]
              /\ ~IsDirectory(nodes, n) => nodes'[n].extension = AfterLastDot(new)
              /\ Len(nodes'[current_directory].children)
                    = Len(nodes[current_directory].children)]_vars

\* C13 witness: file b.t, created earlier, has just been renamed to t.b.x by
\* a later rename, next to a sibling: its extension is x and its timestamps
\* are older than the cursor's modified_at
RenameWitness ==
    /\ ret.op = "rename" /\ ret.ok /\ ret.args = <<NameBT, NameDots>>
    /\ Len(nodes[current_directory].children) = 2
    /\ LET n == get_child(nodes, current_directory, NameDots) IN
          /\ n # None /\ ~IsDirectory(nodes, n)
          /\ nodes[n].extension = <<"x">>
          /\ nodes[n].modified_at < nodes[current_directory].modified_at

\* a directory that holds a file has been renamed at a later time
RenameDirectoryWitness ==
    /\ ret.op = "rename" /\ ret.ok /\ ret.args[1] = NameA
    /\ LET n == get_child(nodes, current_directory, ret.args[2]) IN
          /\ n # None /\ IsDirectory(nodes, n) /\ ~is_empty(nodes, n)
          /\ nodes[n].created_at < nodes[current_directory].modified_at

\* the fields of a directory other than its children map and modified_at
SameButChildren(x, y) ==
    /\ x.type = y.type /\ x.name = y.name /\ x.parent = y.parent
    /\ x.created_at = y.created_at /\ x.size = y.size
    /\ x.access_mode = y.access_mode

\* C14: delete(name, recursive) on the cursor directory fails with NotFound
\* when no child has that name, and with NotEmpty when the child is a
\* directory with at least one child and recursive is false, changing
\* nothing; otherwise it succeeds, and then the child and every node of its
\* subtree are unreachable from the root, every other node is still in the
\* tree and unchanged, the cursor directory having lost that one entry of
\* its children map (the others kept, in order).
DeleteRemovesSubtree ==
    [][\A name \in ValidNames, recursive \in BOOLEAN :
          (ret = Idle /\ ret'.op = "delete" /\ ret'.args = <<name, recursive>>) =>
              LET n == get_child(nodes, current_directory, name) IN
              IF n = None
              THEN ~ret'.ok /\ ret'.err = "NotFound" /\ manager' = manager
              ELSE IF IsDirectory(nodes, n) /\ Len(nodes[n].children) >= 1 /\ ~recursive
              THEN ~ret'.ok /\ ret'.err = "NotEmpty" /\ manager' = manager
              ELSE
                LET gone == {n} \cup Descendants(nodes, n) IN
                /\ ret'.ok
                /\ root' = root /\ current_directory' = current_directory
                /\ TreeNodes' = TreeNodes \ gone
                /\ \A m \in TreeNodes \ (gone \cup {current_directory}) :
                      nodes'[m] = nodes[m]
                /\ SameButChildren(nodes'[current_directory], nodes[current_directory])
                /\ nodes'[current_directory].children
                      = SelectSeq(nodes[current_directory].children,
                                  LAMBDA e : e.node # n)]_vars

\* C14 witness: in two-level mode directory a, holding a file, has been
\* deleted with recursive set, which left the root empty
DeleteWitness ==
    /\ mode = TWO_LEVEL
    /\ ret.op = "delete" /\ ret.ok /\ ret.args = <<NameA, TRUE>>
    /\ Len(operation_log) = 3
    /\ operation_log[2].message.text = "File created in"
    /\ operation_log[2].message.b = NameA
    /\ operation_log[3].message.text = "Folder deleted"
    /\ TreeNodes = {root}

\* s is a prefix of t
IsPrefix(s, t) == Len(s) <= Len(t) /\ SubSeq(t, 1, Len(s)) = s

\* the operations that log when they succeed
LoggedOps == {"create_file", "create_directory", "delete", "rename"}

\* C15: between two resets (set_mode or _reset_filesystem) the operation log
\* is append-only: every step leaves the previous log as a prefix of the new
\* one; each successful create_file, create_directory, delete and rename and
\* each search, with or without matches, appends exactly one entry; failed
\* operations, change_directory, get_info, list_contents and tree rendering
\* (and the other reads) append none.
LogIsAppendOnly ==
    [][IF ret'.op = "_reset_filesystem" \/ (ret'.op = "set_mode" /\ ret'.ok)
       THEN TRUE
       ELSE /\ IsPrefix(operation_log, operation_log')
            /\ IF ret = Idle /\ ((ret'.op \in LoggedOps /\ ret'.ok) \/ ret'.op = "search")
               THEN Len(operation_log') = Len(operation_log) + 1
               ELSE operation_log' = operation_log]_vars

\* C15 witness: after two logged operations a search that matched nothing
\* has appended the third entry
LogWitness ==
    /\ ret.op = "search"
    /\ Len(operation_log) = 3
    /\ operation_log[3].message.text = "Search performed - No results found"
    /\ operation_log[1].message.text = "Folder created"
    /\ operation_log[2].message.text = "Folder renamed to"

\* the positions, in the children maps, of the entries that lead from the
\* cursor down to node n of its subtree
RECURSIVE PosPath(_)
PosPath(n) ==
    IF n = current_directory THEN <<>>
    ELSE LET e == CHOOSE e \in OwnerEntries(n) : TRUE IN Append(PosPath(e[1]), e[2])

\* pre-order: a directory comes before what is in it, and what is under an
\* earlier entry of a children map before what is under a later one
PreOrderBefore(p, q) ==
    \/ Len(p) < Len(q) /\ IsPrefix(p, q)
    \/ \E k \in 1..Len(p) :
          /\ k <= Len(q)
          /\ SubSeq(p, 1, k - 1) = SubSeq(q, 1, k - 1)
          /\ p[k] < q[k]

\* the nodes of the cursor's subtree, the cursor excluded
Subtree == Descendants(nodes, current_directory)

\* the list a search has returned
SearchReturnsMatchesInPreOrder ==
    ret.op = "search" =>
        LET query == ret.args[1]
            results == search_results(query)
            matching == {n \in Subtree : _matches_pattern(nodes[n].name, query)}
            NodeOf(r) == CHOOSE n \in Subtree : get_path(nodes, n) = r.path
        IN
        /\ Len(results) = Cardinality(matching)
        /\ \A i \in 1..Len(results) :
              /\ \E n \in matching : get_path(nodes, n) = results[i].path
              /\ results[i].name = nodes[NodeOf(results[i])].name
              /\ results[i].type = IF IsDirectory(nodes, NodeOf(results[i]))
                                   THEN "Dir" ELSE "File"
        /\ \A n \in matching : \E i \in 1..Len(results) : results[i].path = get_path(nodes, n)
        /\ \A i, j \in 1..Len(results) :
              i < j => PreOrderBefore(PosPath(NodeOf(results[i])), PosPath(NodeOf(results[j])))

\* a search step leaves the tree and the cursor alone
SearchStep ==
    (ret = Idle /\ ret'.op = "search") =>
        nodes' = nodes /\ root' = root /\ current_directory' = current_directory

\* C16: search(query) returns exactly the nodes of the cursor's subtree (the
\* cursor itself and everything outside the subtree excluded) whose name the
\* match test accepts, each once, in pre-order: the children of a directory
\* in insertion order, a matching child before the matches found inside it;
\* search changes neither the tree nor the cursor.
SearchIsPreOrder == []SearchReturnsMatchesInPreOrder /\ [][SearchStep]_vars

\* C16 witness: search("*") from the root has returned three nodes, the
\* directory aa, then a file inside it, then a file entered in the root
\* after aa
SearchWitness ==
    /\ ret.op = "search" /\ ret.args = <<QueryAll>>
    /\ current_directory = root
    /\ Len(search_results(QueryAll)) = 3
    /\ search_results(QueryAll)[1].type = "Dir"
    /\ search_results(QueryAll)[2].path = <<"/">> \o NameAA \o <<"/">> \o NameUpper
    /\ search_results(QueryAll)[3].path = <<"/">> \o NameTail

\* a search below the root that leaves out a match outside the cursor's
\* subtree
SearchBelowRootWitness ==
    /\ ret.op = "search" /\ ret.args = <<QueryStarT>>
    /\ current_directory # root
    /\ get_child(nodes, root, NameUpper) # None
    /\ Len(search_results(QueryStarT)) = 1

\* the letters of the model's alphabet, in the two cases
UpperCase == <<"A", "B", "T", "X">>
LowerCase == <<"a", "b", "t", "x">>

SameIgnoringCase(c, d) ==
    \/ c = d
    \/ \E i \in 1..Len(UpperCase) : {c, d} = {UpperCase[i], LowerCase[i]}

\* the match test as the claim states it: "*" stands for any run of
\* characters (possibly empty), "?" for exactly one character, every other
\* character of the query for itself, whatever its case; the whole name is
\* matched
RECURSIVE Wildcard(_, _)
Wildcard(name, query) ==
    IF query = <<>> THEN name = <<>>
    ELSE IF Head(query) = "*"
    THEN Wildcard(name, Tail(query)) \/ (name # <<>> /\ Wildcard(Tail(name), query))
    ELSE /\ name # <<>>
         /\ Head(query) = "?" \/ SameIgnoringCase(Head(query), Head(name))
         /\ Wildcard(Tail(name), Tail(query))

\* the names a search has returned
Found(query) == {search_results(query)[i].name : i \in 1..Len(search_results(query))}

\* C17 as stated: the search match test treats "*" as any run of characters
\* (possibly empty), "?" as exactly one character and every other character
\* of the query as a literal, compares case-insensitively and matches the
\* whole name: the names a search returns are the names of the subtree that
\* the query matches in that sense.
MatchIsWildcard ==
    ret.op = "search" =>
        \A n \in Subtree :
            nodes[n].name \in Found(ret.args[1]) <=> Wildcard(nodes[n].name, ret.args[1])

\* C17 witness: a file named a+ is in the root and search("a+") has returned
\* nothing
MatchWitness ==
    /\ ret.op = "search" /\ ret.args = <<QueryPlus>>
    /\ has_child(nodes, current_directory, NamePlus)
    /\ search_results(QueryPlus) = <<>>

\* the match test is the stated one for the queries made of letters, ".",
\* "*" and "?" (the claim's examples among them: "*.t" matches b.t and B.T
\* and not b.T.x)
MatchIsWildcardWithoutPlus ==
    (ret.op = "search" /\ ret.args[1] # QueryPlus) =>
        \A n \in Subtree :
            nodes[n].name \in Found(ret.args[1]) <=> Wildcard(nodes[n].name, ret.args[1])

\* C18: list_contents() returns one record per direct child of the cursor,
\* no more and no fewer, ordered so that every directory precedes every file
\* and, within the directories and within the files, the records are in
\* ascending order of name (the order of str).
ListingIsSorted ==
    ret.op = "list_contents" =>
        LET listing == list_contents
            children == nodes[current_directory].children
        IN
        /\ Len(listing) = Len(children)
        /\ \A k \in 1..Len(children) :
              Cardinality({i \in 1..Len(listing) :
                  /\ listing[i].name = children[k].key
                  /\ listing[i].type = IF IsDirectory(nodes, children[k].node)
                                       THEN "Dir" ELSE "File"}) = 1
        /\ \A i, j \in 1..Len(listing) :
              i < j =>
                 /\ ~(listing[i].type = "File" /\ listing[j].type = "Dir")
                 /\ listing[i].type = listing[j].type =>
                       str_lt(listing[i].name, listing[j].name)

\* C18 witness: the root holds, entered in this order, file aa, directory
\* b.t, file B.T and directory a+ (which holds nothing), and list_contents
\* has returned a+, b.t, B.T, aa
ListingWitness ==
    /\ ret.op = "list_contents"
    /\ current_directory = root
    /\ [i \in 1..Len(nodes[root].children) |-> nodes[root].children[i].key]
          = <<NameAA, NameBT, NameUpper, NamePlus>>
    /\ [i \in 1..Len(list_contents) |-> list_contents[i].name]
          = <<NamePlus, NameBT, NameUpper, NameAA>>

\* a step of the manager, seen from the mode
ModeStep ==
    /\ mode' # mode =>
          /\ ret = Idle /\ ret'.op = "set_mode" /\ ret'.ok /\ ret'.args = <<mode'>>
          /\ DOMAIN nodes' = {root'}
          /\ nodes'[root'].children = <<>> /\ nodes'[root'].parent = None
          /\ current_directory' = root'
    /\ (ret = Idle /\ ret' # Idle /\ ~(ret'.op = "set_mode" /\ ret'.ok)) => mode' = mode

\* C19: the mode is always one of the three modes and changes only in a
\* successful set_mode step: create, delete, rename, change_directory,
\* search, the reads and a failed set_mode leave it; and in every step where
\* the mode differs from the previous state the new tree is an empty root
\* with the cursor on it, so no node survives a mode change.
ModeChangesOnlyBySetMode == [](mode \in ValidModes) /\ [][ModeStep]_vars

\* C19 witness: set_mode("single") has succeeded (the manager starts in
\* hierarchical mode) and left an empty root
ModeWitness ==
    /\ ret.op = "set_mode" /\ ret.ok /\ ret.args = <<SINGLE_LEVEL>>
    /\ mode = SINGLE_LEVEL
    /\ TreeNodes = {root} /\ current_directory = root

\* the operations that only read, as far as the tree goes
ReadingOps ==
    {"get_info", "list_contents", "search", "get_tree", "get_full_tree",
     "get_current_path", "get_logs", "change_directory"}

\* a step, seen from the timestamps of the nodes that are there before and
\* after it
ModifiedAtStep ==
    /\ \A n \in DOMAIN nodes \cap DOMAIN nodes' :
          /\ nodes'[n].created_at = nodes[n].created_at
          /\ IF IsDirectory(nodes, n) /\ nodes'[n].children # nodes[n].children
             THEN nodes'[n].modified_at = clock
             ELSE nodes'[n].modified_at = nodes[n].modified_at
    /\ (ret = Idle /\ ret'.op \in LoggedOps /\ ret'.ok) =>
          /\ nodes'[current_directory].children # nodes[current_directory].children
          /\ nodes'[current_directory].modified_at = clock
    /\ (ret = Idle /\ ret'.op \in ReadingOps) =>
          /\ DOMAIN nodes' = DOMAIN nodes
          /\ \A n \in DOMAIN nodes : nodes'[n].modified_at = nodes[n].modified_at
    /\ (ret = Idle /\ ret'.op = "rename" /\ ret'.ok) =>
          LET n == get_child(nodes, current_directory, ret'.args[1]) IN
          /\ get_child(nodes', current_directory, ret'.args[2]) = n
          /\ nodes'[n].created_at = nodes[n].created_at
          /\ nodes'[n].modified_at = nodes[n].modified_at

\* C20: a directory's modified_at is set to the current time in every step
\* that adds or removes an entry of its children map (a successful
\* create_file, create_directory, delete or rename, on the cursor directory)
\* and in no other step: get_info, list_contents, search, get_tree,
\* get_current_path, get_logs and change_directory leave every node's
\* modified_at as it was, and rename leaves the renamed node's own created_at
\* and modified_at as they were.
ModifiedAtFollowsChildren == [][ModifiedAtStep]_vars

\* C20 witness: at a later time than the root and file b.t were made, a has
\* been deleted from the root: the root's modified_at is the time of the
\* delete, b.t's is the time it was made
ModifiedAtWitness ==
    /\ ret.op = "delete" /\ ret.ok /\ ret.args[1] = NameA
    /\ current_directory = root
    /\ nodes[root].created_at < nodes[root].modified_at
    /\ nodes[root].modified_at = clock
    /\ get_child(nodes, root, NameBT) # None
    /\ nodes[get_child(nodes, root, NameBT)].modified_at < clock

\* C21 as stated: after any sequence of operations, with any integer size
\* arguments to create_file, every node's size is a non-negative integer;
\* a file made without a size argument has one of the sizes 1024 * k,
\* 1 <= k <= 100; every directory's size is 0.
SizesAreNonNegative ==
    /\ \A n \in DOMAIN nodes :
          /\ nodes[n].size \in Nat
          /\ IsDirectory(nodes, n) => nodes[n].size = 0
    /\ (ret.op = "create_file" /\ ret.ok /\ ret.args[2] = NoSize) =>
          \E k \in 1..100 :
              nodes[get_child(nodes, current_directory, ret.args[1])].size = 1024 * k

\* C21 witness: create_file("a", -1) has succeeded and the file's size is -1
NegativeSizeWitness ==
    /\ ret.op = "create_file" /\ ret.ok /\ ret.args = <<NameA, <<0 - 1>> >>
    /\ nodes[get_child(nodes, current_directory, NameA)].size = 0 - 1

\* what holds of the sizes: a directory's is 0, a file's is the size
\* argument when one is given, and 1024 * k with 1 <= k <= 100 when none is
SizesAreAsGiven ==
    /\ \A n \in DOMAIN nodes : IsDirectory(nodes, n) => nodes[n].size = 0
    /\ (ret.op = "create_file" /\ ret.ok) =>
          LET size == nodes[get_child(nodes, current_directory, ret.args[1])].size IN
          IF ret.args[2] = NoSize THEN \E k \in 1..100 : size = 1024 * k
          ELSE size = ret.args[2][1]

\* reading a decimal numeral back
DigitOf(c) == CHOOSE d \in 0..9 : digits[d + 1] = c

IsNumeral(s) == s # <<>> /\ \A i \in 1..Len(s) : \E d \in 0..9 : digits[d + 1] = s[i]

RECURSIVE NatOf(_)
NatOf(s) ==
    IF s = <<>> THEN 0 ELSE NatOf(SubSeq(s, 1, Len(s) - 1)) * 10 + DigitOf(s[Len(s)])

\* text is the exact count size, followed by " B"
IsByteCount(text, size) ==
    LET n == Len(text) - 2
        number == SubSeq(text, 1, n)
    IN /\ n >= 1
       /\ SubSeq(text, n + 1, Len(text)) = <<" ", "B">>
       /\ IF size < 0
          THEN /\ number[1] = "-" /\ IsNumeral(Tail(number))
               /\ NatOf(Tail(number)) = 0 - size
          ELSE IsNumeral(number) /\ NatOf(number) = size

\* text is size / per with one decimal (a nearest tenth), followed by " "
\* and the unit
IsOneDecimal(text, size, per, unit) ==
    LET n == Len(text) - 5
        whole == SubSeq(text, 1, n)
        tenths == NatOf(whole) * 10 + DigitOf(text[n + 2])
        off == tenths * per - 10 * size
    IN /\ n >= 1
       /\ IsNumeral(whole)
       /\ text[n + 1] = "."
       /\ IsNumeral(<<text[n + 2]>>)
       /\ SubSeq(text, n + 3, Len(text)) = <<" ", unit, "B">>
       /\ 2 * off <= per /\ 2 * (0 - off) <= per

\* C22: format_size selects the unit by integer thresholds: "B" with the
\* exact byte count when size < 1024, "KB" with one decimal of size / 1024
\* when 1024 <= size < 1048576, otherwise "MB" with one decimal of
\* size / 1048576; 512 gives "512 B", 2048 gives "2.0 KB" and 3 * 1024 * 1024
\* gives "3.0 MB".
FormatSizeUnits ==
    \A n \in DOMAIN nodes :
        LET size == nodes[n].size
            text == format_size(size)
        IN
        /\ IF size < 1024 THEN IsByteCount(text, size)
           ELSE IF size < 1048576 THEN IsOneDecimal(text, size, 1024, "K")
           ELSE IsOneDecimal(text, size, 1048576, "M")
        /\ size = 512 => text = <<"5", "1", "2", " ", "B">>
        /\ size = 2048 => text = <<"2", ".", "0", " ", "K", "B">>
        /\ size = 3 * 1024 * 1024 => text = <<"3", ".", "0", " ", "M", "B">>

\* C22 witness: files of 2048 and of 3 * 1024 * 1024 bytes are in the root
\* and get_info, which formats the size, has returned
FormatSizeWitness ==
    /\ ret.op = "get_info" /\ ret.ok
    /\ {nodes[n].size : n \in child_nodes(nodes, root)} = {2048, 3 * 1024 * 1024}

\* files of 512 and of 1024 bytes are in the root
FormatSizeThresholdWitness ==
    /\ ret.op = "get_info" /\ ret.ok
    /\ {nodes[n].size : n \in child_nodes(nodes, root)} = {512, 1024}

\* the test of name validation a name of the check-order specification
\* fails first ("" when it passes them all)
NameFault(name) ==
    CASE name = NameEmpty -> "EmptyName"
      [] name \in {NameSlash, NameLongSlash} -> "InvalidCharacter"
      [] name = NameLong -> "NameTooLong"
      [] OTHER -> ""

\* the first check create_directory(name) fails, in the order the claim
\* gives ("" when it passes them all)
FirstFailingCheck(name) ==
    IF NameFault(name) # "" THEN NameFault(name)
    ELSE IF mode = SINGLE_LEVEL THEN "UnsupportedOperation"
    ELSE IF mode = TWO_LEVEL /\ Level(current_directory) >= 1 THEN "DepthExceeded"
    ELSE IF mode = HIERARCHICAL /\ Level(current_directory) >= 10 THEN "DepthExceeded"
    ELSE IF \E i \in 1..Len(nodes[current_directory].children) :
               nodes[current_directory].children[i].key = name
    THEN "AlreadyExists"
    ELSE ""

\* C23: create_directory reports the first failing check in the fixed order:
\* name validation (EmptyName, InvalidCharacter, NameTooLong), then
\* UnsupportedOperation in single-level mode, then DepthExceeded (two-level
\* with the cursor at depth >= 1, hierarchical with the cursor at depth >=
\* 10), then AlreadyExists, and succeeds when none fails; so in two-level
\* mode inside a depth-1 directory create_directory of a name present there
\* fails with DepthExceeded.
CreateDirectoryCheckOrder ==
    [][\A name \in OrderNames :
          (ret = Idle /\ ret'.op = "create_directory" /\ ret'.args = <<name>>) =>
              /\ ret'.err = FirstFailingCheck(name)
              /\ ret'.ok <=> FirstFailingCheck(name) = ""]_vars

\* C23 witness: in two-level mode, the cursor in a depth-1 directory that
\* holds a, create_directory("a") has failed with DepthExceeded
CheckOrderWitness ==
    /\ mode = TWO_LEVEL
    /\ Level(current_directory) = 1
    /\ has_child(nodes, current_directory, NameA)
    /\ ret.op = "create_directory" /\ ret.args = <<NameA>>
    /\ ret.err = "DepthExceeded"

\* in hierarchical mode, the cursor in a depth-10 directory that holds a,
\* create_directory("a") has failed with DepthExceeded
CheckOrderDeepWitness ==
    /\ mode = HIERARCHICAL
    /\ Level(current_directory) = 10
    /\ has_child(nodes, current_directory, NameA)
    /\ ret.op = "create_directory" /\ ret.args = <<NameA>>
    /\ ret.err = "DepthExceeded"

\* C24: in single-level mode, in every reachable state, the tree holds no
\* directory other than the root (every child of the root is a file) and
\* the cursor is the root.
SingleLevelIsFlat ==
    mode = SINGLE_LEVEL =>
        /\ \A n \in TreeNodes : IsDirectory(nodes, n) => n = root
        /\ \A i \in 1..Len(nodes[root].children) :
              nodes[nodes[root].children[i].node].type = "FILE"
        /\ TreeNodes = {root} \cup child_nodes(nodes, root)
        /\ current_directory = root

\* C24 witness: in single-level mode two files were made in the root and
\* one of them has just been deleted
SingleLevelFlatWitness ==
    /\ mode = SINGLE_LEVEL
    /\ ret.op = "delete" /\ ret.ok
    /\ Len(nodes[root].children) = 1
    /\ Len(operation_log) = 3

-----------------------------------------------------------------------------
\* the directories of the tree
TreeDirectories == {n \in TreeNodes : IsDirectory(nodes, n)}

\* a directory whose get_path() has no segment "." or "..": neither the
\* directory nor one of its ancestors bears such a name
HasPlainPath(d) ==
    \A i \in 1..Len(NamePath(d)) : NamePath(d)[i] \notin {NameDot, NameDotDot}

\* the step change_directory(d.get_path()) for a directory d of the tree
RoundTripStep(d) ==
    /\ ret = Idle
    /\ ret'.op = "change_directory"
    /\ ret'.args = <<get_path(nodes, d)>>

\* C25: in two-level and hierarchical mode, for every directory d reachable
\* from the root, whatever names _validate_name accepts it and its
\* ancestors bear ("." and ".." included), change_directory(d.get_path())
\* succeeds from any cursor position and sets the cursor to d.
PathRoundTrip ==
    [][\A d \in TreeDirectories :
          (mode \in {TWO_LEVEL, HIERARCHICAL} /\ RoundTripStep(d)) =>
              ret'.ok /\ current_directory' = d]_vars

\* C25 witness: the root holds a directory named "..", and
\* change_directory of its get_path(), "/..", has returned success with the
\* cursor on the root
DotDotDirectoryWitness ==
    /\ mode \in {TWO_LEVEL, HIERARCHICAL}
    /\ ret.op = "change_directory" /\ ret.ok
    /\ \E d \in TreeDirectories :
          /\ nodes[d].name = NameDotDot /\ nodes[d].parent = root
          /\ ret.args = <<get_path(nodes, d)>>
          /\ current_directory = root /\ current_directory # d

\* C25, for the directories whose path has no segment "." or "..": the
\* round trip holds, from any cursor position (directories named "." or
\* ".." included as cursor positions)
PlainPathRoundTrip ==
    [][\A d \in TreeDirectories :
          (mode \in {TWO_LEVEL, HIERARCHICAL} /\ HasPlainPath(d) /\ RoundTripStep(d)) =>
              ret'.ok /\ current_directory' = d]_vars

\* a round trip to a plain-path directory from a cursor that is not the root
PlainPathWitness ==
    /\ ret.op = "change_directory" /\ ret.ok
    /\ ret.args = << <<"/", "a", "/", "a">> >>
    /\ get_current_path = <<"/", "a", "/", "a">>
    /\ Cardinality(TreeDirectories) = 4

-----------------------------------------------------------------------------
\* the keys of the children of the cursor directory, in the order of the dict
ChildOrder == [i \in 1..Len(nodes[current_directory].children) |->
                  nodes[current_directory].children[i].key]

\* a line of the tree text without a trailing "/"
Unslashed(line) ==
    IF line # <<>> /\ line[Len(line)] = "/" THEN SubSeq(line, 1, Len(line) - 1) ELSE line

\* the order get_tree shows the children of the cursor directory in: the
\* names on the lines of the text that begin with a connector (the lines of
\* deeper entries begin with a prefix)
TreeOrder ==
    LET lines == SelectSeq(split(get_tree, "\n"),
                           LAMBDA l : Len(l) > 5 /\ l[2] \in {BoxElbow, BoxTee})
    IN [i \in 1..Len(lines) |-> Unslashed(SubSeq(lines[i], 6, Len(lines[i])))]

\* the order search shows them in: the names of the results of search("*")
\* that are children of the cursor directory
SearchOrder ==
    LET here == get_current_path
        hits == SelectSeq(search_results(<<"*">>),
                    LAMBDA r : r.path = (IF here = <<"/">> THEN here ELSE here \o <<"/">>)
                                        \o r.name)
    IN [i \in 1..Len(hits) |-> hits[i].name]

\* C26 (state part): get_tree and search show the children of the cursor
\* directory in the order of its children map
ChildOrderIsShown == TreeOrder = ChildOrder /\ SearchOrder = ChildOrder

\* C26 (step part): a successful rename(old_name, new_name) leaves the
\* renamed entry last in the cursor directory's children, under its new
\* key, and the other entries before it in the order they had
RenameStep ==
    (ret = Idle /\ ret'.op = "rename" /\ ret'.ok) =>
        LET old_name == ret'.args[1]
            new_name == ret'.args[2]
            before == nodes[current_directory].children
            after == nodes'[current_directory].children
            node == get_child(nodes, current_directory, old_name)
        IN
        /\ current_directory' = current_directory
        /\ Len(after) = Len(before)
        /\ after[Len(after)] = [key |-> new_name, node |-> node]
        /\ SubSeq(after, 1, Len(after) - 1) = SelectSeq(before, LAMBDA e : e.key # old_name)

\* C26: a successful rename moves the renamed entry to the last position of
\* the cursor directory's child order, which is the order get_tree and
\* search show, and keeps the relative order of all other children.
RenameMovesToLast == []ChildOrderIsShown /\ [][RenameStep]_vars

\* C26 witness: the cursor directory holds three entries and the one made
\* first has just been renamed: it is now the last one, in the children map
\* and in the text of get_tree
RenameOrderWitness ==
    /\ ret.op = "rename" /\ ret.ok
    /\ Len(nodes[current_directory].children) = 3
    /\ ChildOrder[3] = ret.args[2]
    /\ TreeOrder[3] = ret.args[2]
    /\ nodes[current_directory].children[3].node < nodes[current_directory].children[1].node
    /\ nodes[current_directory].children[3].node < nodes[current_directory].children[2].node

\* the text of get_tree and get_full_tree for the root holding the
\* directory aa (with the file a in it) and then the file b.t
TreeTextWitness ==
    /\ current_directory = root
    /\ get_tree = <<" ", BoxTee, BoxDash, BoxDash, " ", "a", "a", "/", "\n",
                    " ", BoxBar, " ", " ", " ", " ", BoxElbow, BoxDash, BoxDash, " ", "a", "\n",
                    " ", BoxElbow, BoxDash, BoxDash, " ", "b", ".", "t", "\n">>
    /\ get_full_tree = <<"R", "o", "o", "t", "/", "\n">>
                       \o SubSeq(get_tree, 1, Len(get_tree) - 1)


=============================================================================
